---- MODULE Spec2Model ----
(***************************************************************************)
(* Model of the helix-snapshot-scheduler workers: the register service's   *)
(* updateSchedule, the cron worker (Discovery), the batch revision of the  *)
(* publish worker (Publish Executor) and the DLQ consumer, all sharing one *)
(* R2 bucket (schedule.json, completed/<date>.json, failed/<date>.json),   *)
(* one KV namespace of API keys and the publish queue with its dead-letter *)
(* queue.                                                                  *)
(*                                                                         *)
(* Every handler is a process that moves from one await to the next; the   *)
(* steps of different invocations interleave freely, as they do between    *)
(* independent worker invocations.                                         *)
(***************************************************************************)
EXTENDS Integers, Sequences, FiniteSets, TLC

VARIABLES
    now,          \* Date.now(), in milliseconds
    scheduleJson, \* R2 object schedule.json: [exists, doc]
    completed,    \* R2 objects completed/<date>.json: day -> array of records
    failed,       \* R2 objects failed/<date>.json: day -> array of records
    kv,           \* SCHEDULER_KV: the keys that have a value stored
    queue,        \* PUBLISH_QUEUE: messages waiting for delivery
    dlq,          \* dead-letter queue: messages that exhausted their retries
    cron,         \* the last invocation of the cron worker's scheduled()
    pub,          \* the current/last invocation of the publish worker's queue()
    dlqw,         \* the current/last invocation of the DLQ consumer's queue()
    upd,          \* the current/last invocation of updateSchedule
    faults,       \* number of store/queue/network failures injected so far
    hist,         \* history: what happened to each scheduled job
    tenantPollQueue, \* TENANT_POLL_QUEUE: poll messages waiting for delivery
    poll,         \* the current/last invocation of the tenant-poll worker's queue()
    snap          \* publish-snapshot worker: its queue() invocation and the remote manifests

vars == <<now, scheduleJson, completed, failed, kv, queue, dlq,
          cron, pub, dlqw, upd, faults, hist,
         tenantPollQueue, poll, snap>>

----------------------------------------------------------------------------
(* Bounds of the model *)

MaxTicks == 1          \* cron intervals the clock advances over
MaxBatch == 2          \* largest batch the queue runtime delivers
MaxAttempts == 2       \* deliveries of a message before it is dead-lettered
MaxUpserts == 2        \* updateSchedule requests in one run
MaxFaults == 1         \* injected failures in one run

(* Program constants *)

LOOKAHEAD_MS == 300000      \* 5 * 60 * 1000
CRON_INTERVAL_MS == 300000  \* "The cron worker runs every 5 minutes"
DAY_MS == 86400000          \* toISOString().split('T')[0]: one bucket per UTC day
INVALID_DATE == -1          \* a scheduledPublish string that Date cannot parse

----------------------------------------------------------------------------
(* Names are sequences of characters, so that `${org}--${site}` and         *)
(* orgSiteKey.split('--') are computed, not assumed to be inverse.          *)

Orgs == { <<"o">> }
Sites == { <<"a">>, <<"b">> }
SnapshotIds == { "s1", "s2" }

SEP == <<"-", "-">>

\* `${org}--${site}`
OrgSiteKey(org, site) == org \o SEP \o site

\* String.prototype.split('--'): the pieces between non-overlapping
\* occurrences of the separator, scanned left to right.
RECURSIVE SplitFrom(_, _, _)
SplitFrom(s, i, cur) ==
    IF i > Len(s) THEN << cur >>
    ELSE IF i < Len(s) /\ s[i] = "-" /\ s[i + 1] = "-"
         THEN << cur >> \o SplitFrom(s, i + 2, << >>)
         ELSE SplitFrom(s, i + 1, Append(cur, s[i]))

Split(key) == SplitFrom(key, 1, << >>)

\* const [org, site] = orgSiteKey.split('--'); a missing piece is undefined,
\* which is falsy like the empty string.
SplitOrg(key) == Split(key)[1]
SplitSite(key) == IF Len(Split(key)) >= 2 THEN Split(key)[2] ELSE << >>

TenantKeys == { OrgSiteKey(o, s) : o \in Orgs, s \in Sites }

\* const kvConfigKey = `${org}--${site}--apiToken` in the register service,
\* `${org}--${site}--apiKey` in the publish worker
ApiTokenKey(org, site) == OrgSiteKey(org, site) \o SEP \o <<"apiToken">>
ApiKeyKey(org, site) == OrgSiteKey(org, site) \o SEP \o <<"apiKey">>

----------------------------------------------------------------------------
(* JavaScript objects as functions with a finite domain *)

DeleteKey(obj, k) == [x \in (DOMAIN obj) \ {k} |-> obj[x]]
SetKey(obj, k, v) == [x \in (DOMAIN obj) \cup {k} |-> IF x = k THEN v ELSE obj[x]]
EmptyObject == [x \in {} |-> 0]

Max(a, b) == IF a >= b THEN a ELSE b

\* Math.ceil(a / 1000) on integers
CeilDiv(a, b) == -((-a) \div b)

\* new Date(str).getTime(): NaN for a string that is no date
DateGetTime(str) ==
    IF str = INVALID_DATE THEN [nan |-> TRUE, ms |-> 0]
    ELSE [nan |-> FALSE, ms |-> str]

\* new Date().toISOString().split('T')[0], as the number of the UTC day
Today(t) == t \div DAY_MS

----------------------------------------------------------------------------
(* Cron worker: getScheduledSnapshots *)

\* A lookahead window that leaves its end out
DueBeforeLookaheadEnd(scheduledPublish, lookaheadEnd) ==
    ~scheduledPublish.nan /\ scheduledPublish.ms < lookaheadEnd

\* if (scheduledPublish <= lookaheadEnd): every comparison with NaN is false
DueWithinLookahead(scheduledPublish, lookaheadEnd) ==
    ~scheduledPublish.nan /\ scheduledPublish.ms <= lookaheadEnd

\* A delay without Math.max(0, ...)
DelaySecondsUnclamped(scheduledPublishMs, t) ==
    CeilDiv(scheduledPublishMs - t, 1000)

\* Math.max(0, Math.ceil((scheduledPublish - now) / 1000))
DelaySeconds(scheduledPublishMs, t) ==
    Max(0, CeilDiv(scheduledPublishMs - t, 1000))

\* Object.entries(schedule) x Object.entries(snapshots): every
\* (orgSiteKey, snapshotId) pair of the document
Entries(schedule) ==
    UNION { { <<k, id>> : id \in DOMAIN schedule[k] } : k \in DOMAIN schedule }

\* A scan that skips no tenant key
ValidOrgSiteKeyAlways(k) == TRUE

\* if (!org || !site) continue
ValidOrgSiteKey(k) == SplitOrg(k) # << >> /\ SplitSite(k) # << >>

\* A scan that an entry with an unparseable date aborts: nothing is returned
getScheduledSnapshotsAborting(schedule, t) ==
    LET lookaheadEnd == t + LOOKAHEAD_MS
        due == { e \in Entries(schedule) :
                   /\ ValidOrgSiteKey(e[1])
                   /\ DueWithinLookahead(DateGetTime(schedule[e[1]][e[2]]),
                                         lookaheadEnd) }
    IN  IF \E e \in Entries(schedule) : DateGetTime(schedule[e[1]][e[2]]).nan
        THEN {}
        ELSE { [ org |-> SplitOrg(e[1]),
                 site |-> SplitSite(e[1]),
                 snapshotId |-> e[2],
                 scheduledPublish |-> schedule[e[1]][e[2]],
                 delaySeconds |->
                     DelaySeconds(DateGetTime(schedule[e[1]][e[2]]).ms, t) ] :
               e \in due }

\* The snapshots getScheduledSnapshots returns for a loaded schedule
\* document (the order of the array is the order of the object's keys and
\* is not kept: the queue does not keep it either).
getScheduledSnapshots(schedule, t) ==
    LET lookaheadEnd == t + LOOKAHEAD_MS
        due == { e \in Entries(schedule) :
                   /\ ValidOrgSiteKey(e[1])
                   /\ DueWithinLookahead(DateGetTime(schedule[e[1]][e[2]]),
                                         lookaheadEnd) }
    IN  { [ org |-> SplitOrg(e[1]),
            site |-> SplitSite(e[1]),
            snapshotId |-> e[2],
            scheduledPublish |-> schedule[e[1]][e[2]],
            delaySeconds |->
                DelaySeconds(DateGetTime(schedule[e[1]][e[2]]).ms, t) ] :
          e \in due }

----------------------------------------------------------------------------
(* Removal from a loaded schedule document (publish worker and DLQ consumer) *)

\* A turn without the test "schedule[orgSiteKey] && ...": the delete throws
\* a TypeError when the tenant key is absent
RemoveSnapshotUnguarded(r, snapshot) ==
    LET orgSiteKey == OrgSiteKey(snapshot.org, snapshot.site)
        schedule == r.schedule
    IN  IF r.threw THEN r
        ELSE IF orgSiteKey \notin DOMAIN schedule
        THEN [ r EXCEPT !.threw = TRUE ]
        ELSE LET rest == DeleteKey(schedule[orgSiteKey], snapshot.snapshotId)
             IN  [ r EXCEPT
                     !.schedule =
                        IF DOMAIN rest = {}
                        THEN DeleteKey(schedule, orgSiteKey)
                        ELSE SetKey(schedule, orgSiteKey, rest),
                     !.removedCount = @ + 1 ]

\* A turn that keeps the tenant key when its last job is deleted
RemoveSnapshotKeepsKey(r, snapshot) ==
    LET orgSiteKey == OrgSiteKey(snapshot.org, snapshot.site)
        schedule == r.schedule
    IN  IF r.threw THEN r
        ELSE IF /\ orgSiteKey \in DOMAIN schedule
                /\ snapshot.snapshotId \in DOMAIN schedule[orgSiteKey]
        THEN [ r EXCEPT
                 !.schedule =
                    SetKey(schedule, orgSiteKey,
                           DeleteKey(schedule[orgSiteKey], snapshot.snapshotId)),
                 !.removedCount = @ + 1 ]
        ELSE r

\* A turn that deletes the whole tenant of the snapshot
RemoveSnapshotWholeTenant(r, snapshot) ==
    LET orgSiteKey == OrgSiteKey(snapshot.org, snapshot.site)
        schedule == r.schedule
    IN  IF r.threw THEN r
        ELSE IF /\ orgSiteKey \in DOMAIN schedule
                /\ snapshot.snapshotId \in DOMAIN schedule[orgSiteKey]
        THEN [ r EXCEPT !.schedule = DeleteKey(schedule, orgSiteKey),
                        !.removedCount = @ + 1 ]
        ELSE r

\* One turn of the loop "for (const snapshot of snapshots)": the document
\* after it, whether the turn threw, and the snapshots removed so far.
RemoveSnapshot(r, snapshot) ==
    LET orgSiteKey == OrgSiteKey(snapshot.org, snapshot.site)
        schedule == r.schedule
    IN  IF r.threw THEN r
        ELSE IF /\ orgSiteKey \in DOMAIN schedule
                /\ snapshot.snapshotId \in DOMAIN schedule[orgSiteKey]
        THEN LET rest == DeleteKey(schedule[orgSiteKey], snapshot.snapshotId)
             IN  [ r EXCEPT
                     !.schedule =
                        IF DOMAIN rest = {}
                        THEN DeleteKey(schedule, orgSiteKey)
                        ELSE SetKey(schedule, orgSiteKey, rest),
                     !.removedCount = @ + 1 ]
        ELSE r   \* console.warn(... not found ...)

RECURSIVE RemoveLoop(_, _)
RemoveLoop(r, snapshots) ==
    IF snapshots = << >> THEN r
    ELSE RemoveLoop(RemoveSnapshot(r, Head(snapshots)), Tail(snapshots))

\* A removal that stops after the first snapshot of the batch
batchUpdateFirstOnly(schedule, snapshots) ==
    RemoveLoop([schedule |-> schedule, threw |-> FALSE, removedCount |-> 0],
               SubSeq(snapshots, 1, 1))

\* publish worker: the loop of batchUpdateScheduledJson over the loaded document
batchUpdateScheduledJson(schedule, snapshots) ==
    RemoveLoop([schedule |-> schedule, threw |-> FALSE, removedCount |-> 0],
               snapshots)

\* A DLQ removal that leaves the document as it was loaded
batchRemoveNothing(schedule, snapshots) ==
    [schedule |-> schedule, threw |-> FALSE, removedCount |-> 0]

\* DLQ consumer: the loop of batchRemoveFromScheduledJson over the loaded document
batchRemoveFromScheduledJson(schedule, snapshots) ==
    RemoveLoop([schedule |-> schedule, threw |-> FALSE, removedCount |-> 0],
               snapshots)

\* An upsert that keeps the due time a job already has
UpsertScheduleKeepFirst(scheduleData, org, site, snapshotId, scheduledPublish) ==
    LET orgSiteKey == OrgSiteKey(org, site)
        existing == IF orgSiteKey \in DOMAIN scheduleData
                    THEN scheduleData[orgSiteKey] ELSE EmptyObject
    IN  IF snapshotId \in DOMAIN existing THEN scheduleData
        ELSE SetKey(scheduleData, orgSiteKey,
                    SetKey(existing, snapshotId, scheduledPublish))

\* A put that patches the stored document: the tenants and jobs of the new
\* document are written over the stored ones, the others are kept
PutScheduleMerge(stored, doc) ==
    [ exists |-> TRUE,
      doc |-> [ k \in DOMAIN stored.doc \cup DOMAIN doc |->
                  IF k \notin DOMAIN doc THEN stored.doc[k]
                  ELSE IF k \notin DOMAIN stored.doc THEN doc[k]
                  ELSE [ id \in DOMAIN stored.doc[k] \cup DOMAIN doc[k] |->
                           IF id \in DOMAIN doc[k] THEN doc[k][id]
                           ELSE stored.doc[k][id] ] ] ]

\* env.R2_BUCKET.put('schedule.json', JSON.stringify(doc, null, 2)): the
\* object is replaced as a whole, whatever was stored
PutSchedule(stored, doc) == [ exists |-> TRUE, doc |-> doc ]

\* register service: scheduleData[orgSiteKey][snapshotId] = scheduledPublish
UpsertSchedule(scheduleData, org, site, snapshotId, scheduledPublish) ==
    LET orgSiteKey == OrgSiteKey(org, site)
        existing == IF orgSiteKey \in DOMAIN scheduleData
                    THEN scheduleData[orgSiteKey] ELSE EmptyObject
    IN  SetKey(scheduleData, orgSiteKey,
               SetKey(existing, snapshotId, scheduledPublish))

\* register service (revision with GET /schedule/:org/:site): the response
\* of getSchedule for an authorized request, given what the bucket holds
\* and whether the read throws
getSchedule(stored, org, site, readThrows) ==
    IF readThrows
    THEN [ status |-> 500, body |-> EmptyObject ]   \* 'Could not retrieve schedule data'
    ELSE LET scheduleData == IF stored.exists THEN stored.doc ELSE EmptyObject
             orgSiteKey == OrgSiteKey(org, site)
             orgSiteData == IF orgSiteKey \in DOMAIN scheduleData
                            THEN scheduleData[orgSiteKey] ELSE EmptyObject
         IN  [ status |-> 200,
               body |-> SetKey(EmptyObject, orgSiteKey, orgSiteData) ]

\* publish worker: the records batchMoveToCompleted pushes, in batch order
CompletionRecord(snapshot) ==
    [ org |-> snapshot.org, site |-> snapshot.site,
      snapshotId |-> snapshot.snapshotId,
      scheduledPublish |-> snapshot.scheduledPublish,
      publishedAt |-> snapshot.publishedAt,
      publishedBy |-> "scheduled-snapshot-publisher" ]

batchMoveToCompleted(completedSnapshots, snapshots) ==
    completedSnapshots \o [i \in 1..Len(snapshots) |-> CompletionRecord(snapshots[i])]

\* DLQ consumer: existingFailed.push({...msg, failedAt, reason})
FailureRecord(msg, failedAt) ==
    [ org |-> msg.org, site |-> msg.site, snapshotId |-> msg.snapshotId,
      scheduledPublish |-> msg.scheduledPublish,
      messageId |-> msg.messageId, timestamp |-> msg.timestamp,
      failedAt |-> failedAt, reason |-> "exceeded-max-retries" ]

AppendFailed(existingFailed, failedMessages, failedAt) ==
    existingFailed \o
        [i \in 1..Len(failedMessages) |-> FailureRecord(failedMessages[i], failedAt)]

----------------------------------------------------------------------------
(* Initial state: an empty bucket, every tenant registered, empty queues *)

Job(org, site, snapshotId) == << OrgSiteKey(org, site), snapshotId >>
JobOf(body) == Job(body.org, body.site, body.snapshotId)

\* A run of the cron worker, kept after it ended: its time, whether the
\* load of schedule.json threw, the sends it called, the sends that threw,
\* what scheduled() returned and whether an error left scheduled().
CronIdle ==
    [ lastRun |-> -1, loadThrew |-> FALSE, sendCalls |-> {}, failedSends |-> {},
      result |-> TRUE, raised |-> FALSE ]

\* An invocation of the publish worker. While it runs: its position, its
\* batch, its publishedSnapshots and the schedule document it loaded and
\* changed, and whether that document is stale (another invocation has
\* saved schedule.json since the load). Kept after it ended: the size of the
\* batch, the publishSnapshot calls made, the requests sent and the requests
\* that succeeded, the first failed call, whether a call was made for a job
\* whose publish request had succeeded before, whether the removal loop
\* threw, the puts issued and whether queue() returned or raised; whether a
\* call found no API key stored for its tenant, and the bookkeeping
\* operation that threw ("none" when none did).
PubIdle ==
    [ pc |-> "idle", batch |-> << >>, publishedSnapshots |-> << >>,
      completedReadThrew |-> FALSE,
      noCredential |-> FALSE, bookkeepingThrew |-> "none",
      loadedSchedule |-> EmptyObject, schedule |-> EmptyObject, stale |-> FALSE,
      n |-> 0, calls |-> 0, requests |-> 0, okCalls |-> 0, failedAt |-> 0,
      succeededJobs |-> {}, repeated |-> FALSE, removalThrew |-> FALSE,
      completedPuts |-> 0, schedulePuts |-> 0, result |-> "none" ]

\* An invocation of the DLQ consumer, in the same way
DlqIdle ==
    [ pc |-> "idle", failedMessages |-> << >>,
      loadedSchedule |-> EmptyObject, schedule |-> EmptyObject, stale |-> FALSE,
      n |-> 0, failedReadThrew |-> FALSE, failedPutThrew |-> FALSE,
      scheduleThrew |-> FALSE, removalThrew |-> FALSE,
      removalCalls |-> 0, schedulePuts |-> 0, result |-> "none" ]

\* An invocation of updateSchedule. Kept after it ended: the status of
\* its response, the number of requests so far, and whether its save put a
\* new due time in the place of another one of the same job.
UpdIdle ==
    [ pc |-> "idle", org |-> << >>, site |-> << >>, snapshotId |-> "",
      scheduledPublish |-> 0, scheduleData |-> EmptyObject, stale |-> FALSE,
      status |-> 0, requests |-> 0, replaced |-> FALSE,
      authorization |-> "none" ]

\* An invocation of the tenant-poll worker's queue(). While it runs: its
\* position, its batch and the message it is at, the snapshot names still
\* to look up and the publishSnapshotList built so far. Kept after it
\* ended: the PUBLISH_QUEUE.send calls made, the poll messages whose
\* snapshot list could not be fetched, and those sent again.
PollIdle ==
    [ pc |-> "idle", batch |-> << >>, i |-> 0,
      snapshots |-> << >>, publishSnapshotList |-> << >>,
      sendCalls |-> {}, listFailed |-> {}, resent |-> {} ]

\* The publish-snapshot worker. While its queue() runs: its position, its
\* batch and the message it is at. Kept after it ended: whether it raised,
\* the publish calls made for each job with their outcome, the manifest
\* updates made with the outcome of the publish call before them, and the
\* PUBLISH_QUEUE.send calls of its catch block. `published` holds the
\* snapshots the admin API has published and `manifests` the snapshots
\* whose remote manifest has status 'published' and no scheduledPublish.
SnapIdle ==
    [ pc |-> "idle", batch |-> << >>, i |-> 0, raised |-> FALSE,
      calls |-> {}, patches |-> {}, resent |-> {},
      published |-> {}, manifests |-> {} ]

\* History: the jobs a successful updateSchedule has stored; the jobs whose
\* publish request succeeded since they were last stored; the jobs the DLQ
\* consumer has removed in a successful save since they were last stored;
\* those of them that were parked when an invocation saved a stale schedule
\* document; the parked jobs a later cron run has passed over; and the
\* messages whose completion records the publish worker has saved.
HistInit ==
    [ inserted |-> {}, succeeded |-> {}, parked |-> {}, exposed |-> {},
      skipped |-> {}, booked |-> {} ]

\* schedule.json has just been saved by another invocation: the document
\* an invocation has loaded and not yet saved is stale from now on
Outdated(inv, holding) ==
    IF inv.pc = holding THEN [ inv EXCEPT !.stale = TRUE ] ELSE inv

\* A save of schedule.json by an invocation whose document is stale or not
Exposed(stale) == IF stale THEN hist.exposed \cup hist.parked ELSE hist.exposed

\* The KV namespace with the apiToken of the tenants T (written by the
\* register service) and the apiKey of the tenants K (read by the publish
\* worker, written by no code of this revision)
KvOf(T, K) ==
    { ApiTokenKey(t[1], t[2]) : t \in T } \cup { ApiKeyKey(t[1], t[2]) : t \in K }

\* The KV namespace a run starts with: every tenant is registered and has
\* the key the publish worker reads, or one tenant only is registered and
\* the key the publish worker reads is not stored.
KvStores ==
    { KvOf(Orgs \X Sites, Orgs \X Sites), KvOf(Orgs \X { <<"a">> }, {}) }

Init ==
    /\ now = 0
    /\ scheduleJson = [exists |-> FALSE, doc |-> EmptyObject]
    /\ completed = EmptyObject
    /\ failed = EmptyObject
    /\ kv \in KvStores
    /\ queue = {}
    /\ dlq = {}
    /\ cron = CronIdle
    /\ pub = PubIdle
    /\ dlqw = DlqIdle
    /\ upd = UpdIdle
    /\ faults = 0
    /\ hist = HistInit
    /\ tenantPollQueue = {}
    /\ poll = PollIdle
    /\ snap = SnapIdle

\* A failure of the store, the KV namespace, the queue or the network may
\* be injected while the budget lasts.
MayFail == faults < MaxFaults

Cost(b) == IF b THEN 1 ELSE 0

\* Whether one more operation may throw, given the budget left
Throws(budget) == IF budget > 0 THEN BOOLEAN ELSE { FALSE }

----------------------------------------------------------------------------
(* Register service *)

\* What the scheduling API is asked to store: two due times and one string
\* that is no date.
DueInputs == { 300000, 600000, INVALID_DATE }

\* request.headers.get('Authorization'): no header, a token the admin API
\* does not accept, or a token it accepts
Authorizations == { "none", "rejected", "accepted" }

\* What a request may lack: nothing, its JSON body, or one of the fields
\* the handler asks for ("!data", "!org || !site || !snapshotId")
UpdMissing == { "none", "body", "org", "site", "snapshotId" }

\* A handler that stores the job before it answers 400 or 404
ScheduleAfterRejectUpserting(stored, org, site, snapshotId, scheduledPublish) ==
    PutSchedule(stored,
                UpsertSchedule(stored.doc, org, site, snapshotId, scheduledPublish))

\* schedule.json after a request that was answered with 400 or 404: each
\* "return new Response(..., { status: 400 | 404 })" comes before the get
\* and the put of schedule.json
ScheduleAfterReject(stored, org, site, snapshotId, scheduledPublish) == stored

\* updateSchedule up to "await env.R2_BUCKET.get('schedule.json')": the
\* checks, then the load and the in-memory upsert.
updateScheduleLoad(org, site, snapshotId, scheduledPublish) ==
    /\ upd.pc = "idle"
    /\ upd.requests < MaxUpserts
    /\ \E authorization \in Authorizations,         \* read by no line of the handler
          missing \in UpdMissing,
          manifestFound \in BOOLEAN :               \* fetchSnapshotManifest returns null
       LET req == [ upd EXCEPT !.org = org, !.site = site,
                               !.snapshotId = snapshotId,
                               !.scheduledPublish = scheduledPublish,
                               !.scheduleData = EmptyObject,
                               !.authorization = authorization,
                               !.requests = @ + 1 ]
           registered == ApiTokenKey(org, site) \in kv
           Rejected(status) ==
               /\ upd' = [ UpdIdle EXCEPT !.status = status,
                                          !.requests = req.requests ]
               /\ scheduleJson' = ScheduleAfterReject(scheduleJson, org, site,
                                                      snapshotId, scheduledPublish)
               /\ UNCHANGED faults
       IN  /\ missing # "none" => manifestFound
           /\ \/ /\ missing # "none"                   \* 'Invalid body. Please provide ...'
                 /\ Rejected(400)
              \/ /\ missing = "none"
                 /\ ~registered                       \* 'Org/site not registered'
                 /\ manifestFound
                 /\ Rejected(404)
              \/ /\ missing = "none"
                 /\ registered
                 /\ ~manifestFound                    \* 'Could not get snapshot details'
                 /\ Rejected(404)
              \/ /\ missing = "none"
                 /\ registered /\ manifestFound
                 /\ DateGetTime(scheduledPublish).nan \* 'Invalid scheduledPublish date format'
                 /\ Rejected(400)
              \/ /\ missing = "none"
                 /\ registered /\ manifestFound
                 /\ ~DateGetTime(scheduledPublish).nan
                 /\ \E getThrows \in Throws(MaxFaults - faults) :           \* the get throws: start from {}
                      /\ Cost(getThrows) <= MaxFaults - faults
                      /\ faults' = faults + Cost(getThrows)
                      /\ upd' = [ req EXCEPT
                                    !.pc = "put", !.status = 0,
                                    !.scheduleData =
                                        UpsertSchedule(
                                            IF scheduleJson.exists /\ ~getThrows
                                            THEN scheduleJson.doc ELSE EmptyObject,
                                            org, site, snapshotId, scheduledPublish) ]
                 /\ UNCHANGED scheduleJson
    /\ UNCHANGED <<now, completed, failed, kv, queue, dlq,
                   cron, pub, dlqw, hist>>
    /\ UNCHANGED <<tenantPollQueue, poll, snap>>

\* updateSchedule from "await env.R2_BUCKET.put('schedule.json', ...)" on
updateSchedulePut ==
    /\ upd.pc = "put"
    /\ \E putThrows \in Throws(MaxFaults - faults) :
         /\ Cost(putThrows) <= MaxFaults - faults
         /\ faults' = faults + Cost(putThrows)
         /\ IF putThrows
            THEN /\ upd' = [ UpdIdle EXCEPT !.status = 500,
                                            !.requests = upd.requests ]
                 /\ UNCHANGED <<scheduleJson, hist, pub, dlqw>>
            ELSE /\ scheduleJson' = PutSchedule(scheduleJson, upd.scheduleData)
                 /\ upd' = [ UpdIdle EXCEPT
                               !.status = 200,
                               !.requests = upd.requests,
                               !.replaced =
                                   LET k == OrgSiteKey(upd.org, upd.site)
                                   IN  /\ k \in DOMAIN scheduleJson.doc
                                       /\ upd.snapshotId \in DOMAIN scheduleJson.doc[k]
                                       /\ scheduleJson.doc[k][upd.snapshotId]
                                              # upd.scheduledPublish ]
                 /\ hist' = [ hist EXCEPT
                                !.inserted = @ \cup { Job(upd.org, upd.site, upd.snapshotId) },
                                !.succeeded = @ \ { Job(upd.org, upd.site, upd.snapshotId) },
                                !.parked = @ \ { Job(upd.org, upd.site, upd.snapshotId) },
                                !.exposed = Exposed(upd.stale)
                                              \ { Job(upd.org, upd.site, upd.snapshotId) },
                                !.skipped = @ \ { Job(upd.org, upd.site, upd.snapshotId) } ]
                 /\ pub' = Outdated(pub, "schedulePut")
                 /\ dlqw' = Outdated(dlqw, "schedulePut")
    /\ UNCHANGED <<now, completed, failed, kv, queue, dlq, cron>>
    /\ UNCHANGED <<tenantPollQueue, poll, snap>>

----------------------------------------------------------------------------
(* Cron worker *)

\* A queue that holds one message for each job, whichever run sent it
QueueMessageOncePerJob(snapshot, delaySeconds, t) ==
    [ id |-> << 0, snapshot.org, snapshot.site, snapshot.snapshotId >>,
      body |-> [ snapshot EXCEPT !.delaySeconds = 0 ],
      notBefore |-> Max(t, snapshot.scheduledPublish),
      attempts |-> 0,
      timestamp |-> 0 ]

\* The message the queue runtime holds for one PUBLISH_QUEUE.send
QueueMessage(snapshot, delaySeconds, t) ==
    [ id |-> << t, snapshot.org, snapshot.site, snapshot.snapshotId >>,
      body |-> snapshot,
      notBefore |-> t + delaySeconds * 1000,
      attempts |-> 0,
      timestamp |-> t ]

\* A cron run that takes what it has sent out of schedule.json
ScheduleAfterScanRemoving(stored, snapshotsToPublish) ==
    [ stored EXCEPT
        !.doc = [ k \in { t \in DOMAIN stored.doc :
                            \E id \in DOMAIN stored.doc[t] :
                                \A sn \in snapshotsToPublish :
                                    JobOf(sn) # <<t, id>> } |->
                    [ id \in { x \in DOMAIN stored.doc[k] :
                                 \A sn \in snapshotsToPublish :
                                     JobOf(sn) # <<k, x>> } |->
                        stored.doc[k][id] ] ] ]

\* scheduled() and getScheduledSnapshots call R2_BUCKET.get only: the
\* stored schedule.json after a run that sent snapshotsToPublish
ScheduleAfterScan(stored, snapshotsToPublish) == stored

\* An outer handler that throws the error again
ScheduledRethrow(threw) == threw

\* try { ... } catch (error) { console.error(...); return false; } around
\* the body of scheduled(): whether an error thrown inside leaves scheduled()
ScheduledCatch(threw) == FALSE

\* A send whose error is thrown again by the callback
SendRethrow(threw) == threw

\* try { await env.PUBLISH_QUEUE.send(...) } catch (error) { return
\* { success: false, ... } }: whether an error of one send leaves the
\* callback of snapshotsToPublish.map, and so rejects Promise.all
SendCatch(threw) == FALSE

\* scheduled(): one run of the cron worker. The load of schedule.json is
\* its only read of shared state and the sends are its only writes, so the
\* run is one step. The callbacks of map all call send before the first of
\* them settles, so every send is called whatever the others do.
scheduled ==
    /\ cron.lastRun # now
    /\ \/ /\ MayFail                                    \* the get or json() throws
          /\ faults' = faults + 1
          /\ cron' = [ lastRun |-> now, loadThrew |-> TRUE,
                       sendCalls |-> {}, failedSends |-> {},
                       result |-> FALSE,
                       raised |-> ScheduledCatch(TRUE) ]
          /\ UNCHANGED <<queue, hist, scheduleJson>>
       \/ LET snapshotsToPublish ==
                  IF scheduleJson.exists
                  THEN getScheduledSnapshots(scheduleJson.doc, now) ELSE {}
          IN  \E lost \in SUBSET snapshotsToPublish :    \* these sends throw
                LET rejected == \E sn \in lost : SendCatch(TRUE)
                IN  /\ Cardinality(lost) <= MaxFaults - faults
                    /\ faults' = faults + Cardinality(lost)
                    /\ queue' = queue \cup
                           { QueueMessage(sn, sn.delaySeconds, now) :
                               sn \in snapshotsToPublish \ lost }
                    /\ cron' = [ lastRun |-> now, loadThrew |-> FALSE,
                                 sendCalls |->
                                     { [ snapshot |-> sn,
                                         delaySeconds |-> sn.delaySeconds ] :
                                       sn \in snapshotsToPublish },
                                 failedSends |-> lost,
                                 result |-> ~rejected,
                                 raised |-> rejected /\ ScheduledCatch(TRUE) ]
                    /\ hist' = [ hist EXCEPT
                                   !.skipped = @ \cup
                                       ((hist.parked \ hist.exposed) \
                                           { JobOf(sn) : sn \in snapshotsToPublish }) ]
                    /\ scheduleJson' =
                           ScheduleAfterScan(scheduleJson, snapshotsToPublish)
    /\ UNCHANGED <<now, completed, failed, kv, dlq, pub, dlqw, upd>>
    /\ UNCHANGED <<tenantPollQueue, poll, snap>>

\* Time passes, one cron interval at a time
Advance ==
    /\ now < MaxTicks * CRON_INTERVAL_MS
    /\ now' = now + CRON_INTERVAL_MS
    /\ UNCHANGED <<scheduleJson, completed, failed, kv, queue, dlq,
                   cron, pub, dlqw, upd, faults, hist>>
    /\ UNCHANGED <<tenantPollQueue, poll, snap>>

----------------------------------------------------------------------------
(* Queue runtime: batches, redelivery and dead-lettering *)

\* The arrays a set of messages can be delivered as
Orderings(S) ==
    { q \in [1..Cardinality(S) -> S] :
        \A a, b \in 1..Cardinality(S) : a # b => q[a] # q[b] }

\* The batches the runtime can deliver from q: up to MaxBatch messages
\* whose delay has passed, each counted as attempted once more
Batches(q) ==
    UNION { { [ i \in 1..Len(b) |-> [ b[i] EXCEPT !.attempts = @ + 1 ] ] :
              b \in Orderings(S) } :
            S \in { T \in SUBSET { m \in q : m.notBefore <= now } :
                      T # {} /\ Cardinality(T) <= MaxBatch } }

\* The messages of q that batch b was made of
Taken(q, b) == { m \in q : \E i \in 1..Len(b) : b[i].id = m.id }

\* A batch whose handler raised: every message of it is delivered again,
\* or dead-lettered once it has used up its attempts.
Redelivered(batch) ==
    { batch[i] : i \in { j \in 1..Len(batch) : batch[j].attempts < MaxAttempts } }
DeadLettered(batch) ==
    { batch[i] : i \in { j \in 1..Len(batch) : batch[j].attempts >= MaxAttempts } }

----------------------------------------------------------------------------
(* Publish worker (batch revision) *)

\* What can happen to one publishSnapshot call from outside: nothing, the
\* KV read throws, fetch()/json() throws (network error), or the admin API
\* answers with an error status and a JSON body.
PublishOutcomes == { "ok", "kv_throws", "fetch_throws", "rejected" }

\* A getApiKey that returns a key for every tenant
getApiKeyAlways(stored, outcome) == outcome # "kv_throws"

\* getApiKey: whether it returns an API key (null when none is stored or
\* the KV read throws)
getApiKey(stored, outcome) == stored /\ outcome # "kv_throws"

\* A publishSnapshot that reports success whatever happened
publishSnapshotAlwaysTrue(apiKey, outcome) == TRUE

\* publishSnapshot: true unless the API key is missing or fetch()/json()
\* throws; the response status is never looked at.
publishSnapshot(apiKey, outcome) == apiKey /\ outcome # "fetch_throws"

\* A loop that passes over the jobs whose publish request has succeeded in
\* an earlier invocation
RECURSIVE PublishLoopSkippingPublished(_, _, _)
PublishLoopSkippingPublished(st, outcomes, i) ==
    IF i > Len(st.batch) \/ st.result = "raised" THEN st
    ELSE LET body == st.batch[i].body
             apiKey == getApiKey(ApiKeyKey(body.org, body.site) \in kv, outcomes[i])
             called == [ st EXCEPT
                           !.calls = @ + 1,
                           !.requests = @ + Cost(apiKey),
                           !.okCalls = @ + Cost(apiKey /\ outcomes[i] = "ok"),
                           !.succeededJobs =
                               IF apiKey /\ outcomes[i] = "ok"
                               THEN @ \cup { JobOf(body) } ELSE @,
                           !.noCredential =
                               @ \/ ApiKeyKey(body.org, body.site) \notin kv ]
         IN  IF JobOf(body) \in hist.succeeded
             THEN PublishLoopSkippingPublished(st, outcomes, i + 1)
             ELSE IF publishSnapshot(apiKey, outcomes[i])
             THEN PublishLoopSkippingPublished(
                      [ called EXCEPT
                          !.publishedSnapshots =
                              Append(@, [ org |-> body.org,
                                          site |-> body.site,
                                          snapshotId |-> body.snapshotId,
                                          scheduledPublish |-> body.scheduledPublish,
                                          publishedAt |-> now ]) ],
                      outcomes, i + 1)
             ELSE [ called EXCEPT !.failedAt = i, !.result = "raised" ]

\* Step 1 of queue(): the loop over batch.messages from message i on. st is
\* the invocation so far; the loop stops at the first call that returns
\* false, where queue() throws.
RECURSIVE PublishLoop(_, _, _)
PublishLoop(st, outcomes, i) ==
    IF i > Len(st.batch) \/ st.result = "raised" THEN st
    ELSE LET body == st.batch[i].body
             apiKey == getApiKey(ApiKeyKey(body.org, body.site) \in kv, outcomes[i])
             failedCall == ~apiKey \/ outcomes[i] = "fetch_throws"
             called == [ st EXCEPT
                           !.calls = @ + 1,
                           !.requests = @ + Cost(apiKey),
                           !.okCalls = @ + Cost(apiKey /\ outcomes[i] = "ok"),
                           !.repeated =
                               @ \/ JobOf(body) \in hist.succeeded \cup st.succeededJobs,
                           !.succeededJobs =
                               IF apiKey /\ outcomes[i] = "ok"
                               THEN @ \cup { JobOf(body) } ELSE @,
                           !.failedAt = IF @ = 0 /\ failedCall THEN i ELSE @,
                           !.noCredential =
                               @ \/ ApiKeyKey(body.org, body.site) \notin kv ]
         IN  IF publishSnapshot(apiKey, outcomes[i])
             THEN PublishLoop(
                      [ called EXCEPT
                          !.publishedSnapshots =
                              Append(@, [ org |-> body.org,
                                          site |-> body.site,
                                          snapshotId |-> body.snapshotId,
                                          scheduledPublish |-> body.scheduledPublish,
                                          publishedAt |-> now ]) ],
                      outcomes, i + 1)
             ELSE [ called EXCEPT !.result = "raised" ]

\* What happens to the n calls of a batch, within the budget left
OutcomesWithin(n, budget) ==
    { o \in [1..n -> PublishOutcomes] :
        Cardinality({ i \in 1..n : o[i] # "ok" }) <= budget }

\* The failures injected into the calls the loop made
LoopCost(st, outcomes) ==
    Cardinality({ i \in 1..st.calls : outcomes[i] # "ok" })

\* queue() has ended: what is kept of the invocation
PubDone(p, result) ==
    [ PubIdle EXCEPT
        !.n = Len(p.batch), !.calls = p.calls, !.requests = p.requests,
        !.okCalls = p.okCalls, !.repeated = p.repeated,
        !.removalThrew = p.removalThrew,
        !.noCredential = p.noCredential,
        !.bookkeepingThrew = p.bookkeepingThrew,
        !.failedAt = p.failedAt, !.completedPuts = p.completedPuts,
        !.schedulePuts = p.schedulePuts, !.result = result ]

\* The handler raised: the runtime takes the batch back
PubRaise(p) ==
    /\ pub' = PubDone(p, "raised")
    /\ queue' = (queue \ Taken(queue, p.batch)) \cup Redelivered(p.batch)
    /\ dlq' = dlq \cup DeadLettered(p.batch)

\* A bookkeeping step whose error is logged and dropped
PubScheduleSwallow(threw) == FALSE

\* A step 2 whose error is logged and dropped
PubCompletedSwallow(threw) == FALSE

\* Step 2: "catch (err) { console.error(...); throw err; }" around
\* batchMoveToCompleted: whether an error thrown there leaves queue()
PubCompletedCatch(threw) == threw

\* Step 3: the same around batchUpdateScheduledJson
PubScheduleCatch(threw) == threw

\* queue() goes on after a bookkeeping error that did not leave it, and
\* returns: the runtime acknowledges the batch
PubReturn(p) ==
    /\ pub' = PubDone(p, "returned")
    /\ UNCHANGED <<queue, dlq>>

\* The runtime delivers a batch and queue() runs its step 1 (the publish
\* calls read only the KV namespace and talk to the admin API) and its
\* step 2, batchMoveToCompleted (only the publish worker touches the
\* completed/ buckets), up to the load of schedule.json.
PubStart ==
    /\ pub.pc = "idle"
    /\ \E batch \in Batches(queue) :
       \E outcomes \in OutcomesWithin(Len(batch), MaxFaults - faults),
          getThrows \in Throws(MaxFaults - faults),
          putThrows \in Throws(MaxFaults - faults) :
         LET st == PublishLoop([ PubIdle EXCEPT !.batch = batch,
                                                !.n = Len(batch),
                                                !.result = "running" ],
                               outcomes, 1)
             today == Today(now)
             stored == IF today \in DOMAIN completed
                       THEN completed[today] ELSE << >>
             completedSnapshots == IF getThrows THEN << >> ELSE stored
             out == batchMoveToCompleted(completedSnapshots, st.publishedSnapshots)
             moved == [ st EXCEPT !.completedPuts = @ + 1,
                                  !.completedReadThrew = getThrows ]
             threwPut == [ moved EXCEPT !.bookkeepingThrew = "completedPut" ]
             saved == st.result # "raised" /\ ~putThrows
         IN  /\ \A i \in 1..Len(batch) :
                  /\ i > st.calls => outcomes[i] = "ok"
                  /\ ApiKeyKey(batch[i].body.org, batch[i].body.site) \notin kv
                         => outcomes[i] = "ok"
             /\ st.result = "raised" => ~getThrows /\ ~putThrows
             /\ LoopCost(st, outcomes) + Cost(getThrows) + Cost(putThrows)
                    <= MaxFaults - faults
             /\ faults' = faults + LoopCost(st, outcomes)
                              + Cost(getThrows) + Cost(putThrows)
             /\ hist' = [ hist EXCEPT
                            !.succeeded = @ \cup st.succeededJobs,
                            !.booked =
                                IF saved
                                THEN @ \cup { batch[i].id : i \in 1..Len(batch) }
                                ELSE @ ]
             /\ IF st.result = "raised"
                THEN /\ PubRaise(st)
                     /\ UNCHANGED completed
                ELSE IF putThrows /\ PubCompletedCatch(TRUE)
                THEN /\ PubRaise(threwPut)
                     /\ UNCHANGED completed
                ELSE IF putThrows
                THEN /\ pub' = [ threwPut EXCEPT !.pc = "scheduleGet" ]
                     /\ queue' = queue \ Taken(queue, batch)
                     /\ UNCHANGED <<completed, dlq>>
                ELSE /\ completed' = SetKey(completed, today, out)
                     /\ pub' = [ moved EXCEPT !.pc = "scheduleGet" ]
                     /\ queue' = queue \ Taken(queue, batch)
                     /\ UNCHANGED dlq
    /\ UNCHANGED <<now, scheduleJson, failed, kv, cron, dlqw, upd>>
    /\ UNCHANGED <<tenantPollQueue, poll, snap>>

\* A load that takes an absent schedule.json for an empty document
PubScheduleNotFoundNever(exists) == FALSE

\* if (!scheduleData) { throw new Error('Schedule data not found') } in
\* batchUpdateScheduledJson: whether it throws for what the get returned
PubScheduleNotFound(exists) == ~exists

\* Step 3, first half: batchUpdateScheduledJson loads schedule.json and
\* removes the published snapshots from the loaded document
PubScheduleGet ==
    /\ pub.pc = "scheduleGet"
    /\ \E getThrows \in Throws(MaxFaults - faults) :
         LET notFound == ~getThrows /\ PubScheduleNotFound(scheduleJson.exists)
             threwGet == [ pub EXCEPT
                             !.bookkeepingThrew =
                                 IF getThrows THEN "scheduleGet"
                                 ELSE "scheduleNotFound" ]
             loaded == IF scheduleJson.exists
                       THEN scheduleJson.doc ELSE EmptyObject
         IN  /\ Cost(getThrows) <= MaxFaults - faults
             /\ faults' = faults + Cost(getThrows)
             /\ IF getThrows \/ notFound
                THEN IF PubScheduleCatch(TRUE)
                     THEN PubRaise(threwGet)
                     ELSE PubReturn(threwGet)
                ELSE LET r == batchUpdateScheduledJson(loaded,
                                                      pub.publishedSnapshots)
                     IN  IF r.threw
                         THEN PubRaise([ pub EXCEPT !.removalThrew = TRUE ])
                         ELSE /\ pub' = [ pub EXCEPT !.pc = "schedulePut",
                                                     !.schedule = r.schedule,
                                                     !.loadedSchedule = loaded ]
                              /\ UNCHANGED <<queue, dlq>>
    /\ UNCHANGED <<now, scheduleJson, completed, failed, kv, cron, dlqw, upd, hist>>
    /\ UNCHANGED <<tenantPollQueue, poll, snap>>

\* Step 3, second half: the put of schedule.json; then queue() returns and
\* the runtime acknowledges the batch
PubSchedulePut ==
    /\ pub.pc = "schedulePut"
    /\ \E putThrows \in Throws(MaxFaults - faults) :
         LET threwPut == [ pub EXCEPT !.schedulePuts = @ + 1,
                                      !.bookkeepingThrew = "schedulePut" ]
         IN  /\ Cost(putThrows) <= MaxFaults - faults
             /\ faults' = faults + Cost(putThrows)
             /\ IF putThrows
                THEN /\ IF PubScheduleCatch(TRUE)
                        THEN PubRaise(threwPut)
                        ELSE PubReturn(threwPut)
                     /\ UNCHANGED <<scheduleJson, dlqw, upd, hist>>
                ELSE /\ scheduleJson' = PutSchedule(scheduleJson, pub.schedule)
                     /\ pub' = PubDone([ pub EXCEPT !.schedulePuts = @ + 1 ], "returned")
                     /\ hist' = [ hist EXCEPT !.exposed = Exposed(pub.stale) ]
                     /\ dlqw' = Outdated(dlqw, "schedulePut")
                     /\ upd' = Outdated(upd, "put")
                     /\ UNCHANGED <<queue, dlq>>
    /\ UNCHANGED <<now, completed, failed, kv, cron>>
    /\ UNCHANGED <<tenantPollQueue, poll, snap>>

----------------------------------------------------------------------------
(* DLQ consumer *)

\* A catch block that throws the error again
DlqStoreRethrow(threw) == threw

\* "catch (err) { console.error(...) // Don't throw }" around the write of
\* the failed/<date> bucket: whether an error thrown in that block leaves
\* queue()
DlqStoreCatch(threw) == FALSE

\* The same around batchRemoveFromScheduledJson (its own try/catch and the
\* caller's): whether an error of the load or the put leaves queue()
DlqRemovalCatch(threw) == FALSE

\* failedMessages.push({org, site, snapshotId, scheduledPublish, messageId, timestamp})
FailedMessage(msg) ==
    [ org |-> msg.body.org, site |-> msg.body.site,
      snapshotId |-> msg.body.snapshotId,
      scheduledPublish |-> msg.body.scheduledPublish,
      messageId |-> msg.id, timestamp |-> msg.timestamp ]

\* queue() has ended: what is kept of the invocation
DlqDone(d, result) ==
    [ d EXCEPT !.pc = "idle", !.failedMessages = << >>,
               !.loadedSchedule = EmptyObject, !.schedule = EmptyObject,
               !.stale = FALSE, !.result = result ]

\* The runtime delivers a dead-letter batch; queue() logs every message and
\* reads and writes today's failed/<date> bucket (only the DLQ consumer
\* touches the failed/ buckets), up to the load of schedule.json.
DlqStart ==
    /\ dlqw.pc = "idle"
    /\ \E batch \in Batches(dlq) :
       \E getThrows \in Throws(MaxFaults - faults),
          putThrows \in Throws(MaxFaults - faults) :
         LET failedMessages == [ i \in 1..Len(batch) |-> FailedMessage(batch[i]) ]
             today == Today(now)
             stored == IF today \in DOMAIN failed THEN failed[today] ELSE << >>
             existingFailed == IF getThrows THEN << >> ELSE stored
             out == AppendFailed(existingFailed, failedMessages, now)
             d == [ DlqIdle EXCEPT !.failedMessages = failedMessages,
                                   !.n = Len(batch),
                                   !.failedReadThrew = getThrows,
                                   !.failedPutThrew = putThrows ]
         IN  /\ Cost(getThrows) + Cost(putThrows) <= MaxFaults - faults
             /\ faults' = faults + Cost(getThrows) + Cost(putThrows)
             /\ dlq' = dlq \ Taken(dlq, batch)
             /\ failed' = IF putThrows THEN failed ELSE SetKey(failed, today, out)
             /\ dlqw' = IF DlqStoreCatch(putThrows)
                        THEN DlqDone(d, "raised")
                        ELSE [ d EXCEPT !.pc = "scheduleGet", !.result = "running" ]
    /\ UNCHANGED <<now, scheduleJson, completed, kv, queue,
                   cron, pub, upd, hist>>
    /\ UNCHANGED <<tenantPollQueue, poll, snap>>

\* batchRemoveFromScheduledJson: the load of schedule.json and the removal
\* of the failed snapshots from the loaded document
DlqScheduleGet ==
    /\ dlqw.pc = "scheduleGet"
    /\ \E getThrows \in Throws(MaxFaults - faults) :
         LET called == [ dlqw EXCEPT !.removalCalls = @ + 1 ]
             r == batchRemoveFromScheduledJson(scheduleJson.doc, dlqw.failedMessages)
         IN  /\ Cost(getThrows) <= MaxFaults - faults
             /\ faults' = faults + Cost(getThrows)
             /\ dlqw' =
                  IF getThrows
                  THEN DlqDone([ called EXCEPT !.scheduleThrew = TRUE ],
                               IF DlqRemovalCatch(TRUE) THEN "raised" ELSE "returned")
                  ELSE IF ~scheduleJson.exists          \* 'No schedule data found'
                  THEN DlqDone(called, "returned")
                  ELSE IF r.threw
                  THEN DlqDone([ called EXCEPT !.scheduleThrew = TRUE,
                                               !.removalThrew = TRUE ],
                               IF DlqRemovalCatch(TRUE) THEN "raised" ELSE "returned")
                  ELSE [ called EXCEPT !.pc = "schedulePut",
                                       !.schedule = r.schedule,
                                       !.loadedSchedule = scheduleJson.doc ]
    /\ UNCHANGED <<now, scheduleJson, completed, failed, kv, queue, dlq,
                   cron, pub, upd, hist>>
    /\ UNCHANGED <<tenantPollQueue, poll, snap>>

\* batchRemoveFromScheduledJson: the put of schedule.json; then queue() returns
DlqSchedulePut ==
    /\ dlqw.pc = "schedulePut"
    /\ \E putThrows \in Throws(MaxFaults - faults) :
         /\ Cost(putThrows) <= MaxFaults - faults
         /\ faults' = faults + Cost(putThrows)
         /\ IF putThrows
            THEN /\ dlqw' = DlqDone([ dlqw EXCEPT !.schedulePuts = @ + 1,
                                                  !.scheduleThrew = TRUE ],
                                    IF DlqRemovalCatch(TRUE)
                                    THEN "raised" ELSE "returned")
                 /\ UNCHANGED <<scheduleJson, hist, pub, upd>>
            ELSE /\ scheduleJson' = PutSchedule(scheduleJson, dlqw.schedule)
                 /\ dlqw' = DlqDone([ dlqw EXCEPT !.schedulePuts = @ + 1 ], "returned")
                 /\ hist' = [ hist EXCEPT
                                !.parked = @ \cup
                                    { JobOf(dlqw.failedMessages[i]) :
                                        i \in 1..Len(dlqw.failedMessages) },
                                !.exposed = Exposed(dlqw.stale) \
                                    { JobOf(dlqw.failedMessages[i]) :
                                        i \in 1..Len(dlqw.failedMessages) } ]
                 /\ pub' = Outdated(pub, "schedulePut")
                 /\ upd' = Outdated(upd, "put")
    /\ UNCHANGED <<now, completed, failed, kv, queue, dlq, cron>>
    /\ UNCHANGED <<tenantPollQueue, poll, snap>>

----------------------------------------------------------------------------
(* The system: registrations, schedule requests, cron runs, deliveries *)

Next ==
    \/ \E org \in Orgs, site \in Sites, snapshotId \in SnapshotIds,
          scheduledPublish \in DueInputs :
         updateScheduleLoad(org, site, snapshotId, scheduledPublish)
    \/ updateSchedulePut
    \/ scheduled
    \/ Advance
    \/ PubStart
    \/ PubScheduleGet
    \/ PubSchedulePut
    \/ DlqStart
    \/ DlqScheduleGet
    \/ DlqSchedulePut

Spec == Init /\ [][Next]_vars

----------------------------------------------------------------------------
(* One cron run over a stored schedule document *)

\* The instants of the runs and the scheduledPublish values of the entries:
\* past, due now, a fraction of a second ahead, whole seconds ahead, at
\* the end of the lookahead window, one millisecond after it, unparseable
ScanNows == { 1000, 1500 }
ScanDues == { 0, 1000, 1001, 2500, 301000, 301001, 301500, INVALID_DATE }

\* A schedule document from its entries
DocOf(f) ==
    [ k \in { e[1] : e \in DOMAIN f } |->
        [ id \in { e[2] : e \in { x \in DOMAIN f : x[1] = k } } |-> f[<<k, id>>] ] ]

ScanDocs ==
    UNION { { DocOf(f) : f \in [S -> ScanDues] } :
            S \in SUBSET (TenantKeys \X SnapshotIds) }

InitScan ==
    /\ now \in ScanNows
    /\ \E doc \in ScanDocs : scheduleJson = [exists |-> TRUE, doc |-> doc]
    /\ completed = EmptyObject
    /\ failed = EmptyObject
    /\ kv = KvOf(Orgs \X Sites, Orgs \X Sites)
    /\ queue = {}
    /\ dlq = {}
    /\ cron = CronIdle
    /\ pub = PubIdle
    /\ dlqw = DlqIdle
    /\ upd = UpdIdle
    /\ faults = 0
    /\ hist = HistInit
    /\ tenantPollQueue = {}
    /\ poll = PollIdle
    /\ snap = SnapIdle

NextScan == scheduled

SpecScan == InitScan /\ [][NextScan]_vars

----------------------------------------------------------------------------
(* The removal of a batch from a stored schedule document, by the publish
   worker and by the DLQ consumer *)

RemoveDocs ==
    UNION { { DocOf(f) : f \in [S -> { LOOKAHEAD_MS }] } :
            S \in SUBSET (TenantKeys \X SnapshotIds) }

\* The batches of up to MaxBatch messages over all jobs, a job more than
\* once included
RemoveBatches ==
    UNION { [1..n -> { QueueMessage([ org |-> o, site |-> st, snapshotId |-> id,
                                      scheduledPublish |-> LOOKAHEAD_MS,
                                      delaySeconds |-> 0 ], 0, 0) :
                         o \in Orgs, st \in Sites, id \in SnapshotIds }] :
            n \in 1..MaxBatch }

\* Both workers have a batch of the same jobs and are about to load
\* schedule.json: the publish worker has published the jobs and written the
\* completed bucket, the DLQ consumer has written the failed bucket.
InitRemove ==
    \E doc \in RemoveDocs, batch \in RemoveBatches :
      LET publishedSnapshots ==
              [ i \in 1..Len(batch) |->
                  [ org |-> batch[i].body.org, site |-> batch[i].body.site,
                    snapshotId |-> batch[i].body.snapshotId,
                    scheduledPublish |-> batch[i].body.scheduledPublish,
                    publishedAt |-> 0 ] ]
          failedMessages == [ i \in 1..Len(batch) |-> FailedMessage(batch[i]) ]
      IN  /\ now = 0
          /\ scheduleJson = [exists |-> TRUE, doc |-> doc]
          /\ completed = SetKey(EmptyObject, Today(0),
                                batchMoveToCompleted(<< >>, publishedSnapshots))
          /\ failed = SetKey(EmptyObject, Today(0),
                             AppendFailed(<< >>, failedMessages, 0))
          /\ kv = KvOf(Orgs \X Sites, Orgs \X Sites)
          /\ queue = {}
          /\ dlq = {}
          /\ cron = CronIdle
          /\ pub = [ PubIdle EXCEPT
                       !.pc = "scheduleGet",
                       !.batch = [ i \in 1..Len(batch) |->
                                     [ batch[i] EXCEPT !.attempts = 1 ] ],
                       !.publishedSnapshots = publishedSnapshots,
                       !.n = Len(batch), !.calls = Len(batch),
                       !.requests = Len(batch), !.okCalls = Len(batch),
                       !.completedPuts = 1, !.result = "running" ]
          /\ dlqw = [ DlqIdle EXCEPT
                        !.pc = "scheduleGet",
                        !.failedMessages = failedMessages,
                        !.n = Len(batch), !.result = "running" ]
          /\ upd = UpdIdle
          /\ faults = 0
          /\ hist = HistInit
          /\ tenantPollQueue = {}
          /\ poll = PollIdle
          /\ snap = SnapIdle

NextRemove ==
    \/ PubScheduleGet
    \/ PubSchedulePut
    \/ DlqScheduleGet
    \/ DlqSchedulePut

SpecRemove == InitRemove /\ [][NextRemove]_vars

----------------------------------------------------------------------------
(* The system started with messages in flight and no schedule.json in the
   bucket (the object was deleted, or never written by this deployment);
   the scheduling API has rejected one request and serves one more *)

\* The messages in flight: one job per tenant, due at once
AbsentMessages ==
    { QueueMessage([ org |-> o, site |-> st, snapshotId |-> "s1",
                     scheduledPublish |-> 0, delaySeconds |-> 0 ], 0, 0) :
        o \in Orgs, st \in Sites }

InitAbsent ==
    /\ now = 0
    /\ scheduleJson = [exists |-> FALSE, doc |-> EmptyObject]
    /\ completed = EmptyObject
    /\ failed = EmptyObject
    /\ kv = KvOf(Orgs \X Sites, Orgs \X Sites)
    /\ \E m \in AbsentMessages :
          /\ queue = { m }
          /\ dlq = { [ x EXCEPT !.attempts = MaxAttempts ] :
                       x \in AbsentMessages \ { m } }
    /\ cron = CronIdle
    /\ pub = PubIdle
    /\ dlqw = DlqIdle
    /\ upd = [ UpdIdle EXCEPT !.status = 400, !.requests = MaxUpserts - 1 ]
    /\ faults = 0
    /\ hist = HistInit
    /\ tenantPollQueue = {}
    /\ poll = PollIdle
    /\ snap = SnapIdle

\* Every handler runs at the initial instant
NextAbsent ==
    \/ \E org \in Orgs, site \in Sites, snapshotId \in SnapshotIds,
          scheduledPublish \in DueInputs :
          updateScheduleLoad(org, site, snapshotId, scheduledPublish)
    \/ updateSchedulePut
    \/ scheduled
    \/ PubStart
    \/ PubScheduleGet
    \/ PubSchedulePut
    \/ DlqStart
    \/ DlqScheduleGet
    \/ DlqSchedulePut

SpecAbsent == InitAbsent /\ [][NextAbsent]_vars

----------------------------------------------------------------------------
(* Tenant-poll worker (discovery by polling the admin API): queue() *)

LOOKAHEAD_SEC == 600

\* const delaySec = 30
POLL_RETRY_DELAY_SEC == 30

\* The time that passes between two awaits of the handler, and the time up
\* to which a run is followed
PollStepMs == 1000
MaxPollMs == 2000

\* What the admin API may answer for a tenant's snapshot list
PollLists == { << >>, << "s1" >>, << "s1", "s2" >> }

\* What the admin API may answer for a snapshot's manifest: with or
\* without metadata.scheduledPublish, with or without resources
PollDues == { 0, 1000, 2000, 700000, INVALID_DATE }
PollManifests ==
    [ hasScheduledPublish : BOOLEAN, scheduledPublish : PollDues,
      hasResources : BOOLEAN ]

\* The message the runtime holds for one TENANT_POLL_QUEUE.send
PollMessage(body, delaySeconds, t, n) ==
    [ id |-> << body.org, body.site, n >>, body |-> body,
      notBefore |-> t + delaySeconds * 1000 ]

\* getSnapshotsList: "catch (error) { console.error(...); return []; }"
\* around the fetch: whether an error thrown there leaves the function
getSnapshotsListCatch(threw) == FALSE

\* processSnapshotList: whether a manifest fetched at time t is pushed to
\* publishSnapshotList
PollDue(manifest, t, lookAheadMs) ==
    LET scheduledPublish == DateGetTime(manifest.scheduledPublish)
    IN  /\ manifest.hasScheduledPublish /\ manifest.hasResources
        /\ ~scheduledPublish.nan
        /\ scheduledPublish.ms >= t
        /\ scheduledPublish.ms <= t + lookAheadMs

\* Math.ceil((snapshot.publishAt - Date.now()) / 1000) || 0
PollDelaySeconds(publishAt, t) == CeilDiv(publishAt - t, 1000)

\* The loop goes on with the next message of the batch, or queue() returns
PollContinue(p) ==
    IF p.i < Len(p.batch)
    THEN [ p EXCEPT !.pc = "list", !.i = @ + 1,
                    !.snapshots = << >>, !.publishSnapshotList = << >> ]
    ELSE [ p EXCEPT !.pc = "idle", !.batch = << >>, !.i = 0,
                    !.snapshots = << >>, !.publishSnapshotList = << >> ]

\* The runtime delivers a batch of poll messages and queue() starts
PollStart ==
    /\ poll.pc = "idle"
    /\ \E S \in SUBSET { m \in tenantPollQueue : m.notBefore <= now } :
       \E batch \in Orderings(S) :
         /\ S # {} /\ Cardinality(S) <= MaxBatch
         /\ tenantPollQueue' = tenantPollQueue \ S
         /\ poll' = [ poll EXCEPT !.pc = "list", !.batch = batch, !.i = 1 ]
    /\ UNCHANGED <<now, scheduleJson, completed, failed, kv, queue, dlq,
                   cron, pub, dlqw, upd, faults, hist, snap>>

\* snapshots = await getSnapshotsList(env, org, site), with the catch of
\* queue() that sends the poll message again
PollList ==
    /\ poll.pc = "list"
    /\ \E fetchThrows \in Throws(MaxFaults - faults), names \in PollLists :
         LET msg == poll.batch[poll.i]
             failedList == IF fetchThrows
                           THEN poll.listFailed \cup { msg.id }
                           ELSE poll.listFailed
             snapshots == IF fetchThrows THEN << >> ELSE names
         IN  /\ fetchThrows => names = << >>
             /\ faults' = faults + Cost(fetchThrows)
             /\ IF getSnapshotsListCatch(fetchThrows)
                THEN /\ tenantPollQueue' = tenantPollQueue \cup
                            { PollMessage(msg.body, POLL_RETRY_DELAY_SEC, now,
                                          msg.id[3] + 1) }
                     /\ poll' = PollContinue(
                                    [ poll EXCEPT
                                        !.listFailed = failedList,
                                        !.resent = @ \cup
                                            { [ of |-> msg.id,
                                                delaySeconds |-> POLL_RETRY_DELAY_SEC ] } ])
                ELSE /\ UNCHANGED tenantPollQueue
                     /\ poll' = IF Len(snapshots) > 0
                                THEN [ poll EXCEPT !.pc = "manifest",
                                                   !.snapshots = snapshots,
                                                   !.listFailed = failedList ]
                                ELSE PollContinue([ poll EXCEPT
                                                      !.listFailed = failedList ])
    /\ UNCHANGED <<now, scheduleJson, completed, failed, kv, queue, dlq,
                   cron, pub, dlqw, upd, hist, snap>>

\* processSnapshotList: one turn of its loop, the fetch of one manifest
PollManifest ==
    /\ poll.pc = "manifest"
    /\ \E fetchThrows \in Throws(MaxFaults - faults), manifest \in PollManifests :
         LET msg == poll.batch[poll.i]
             snapshot == Head(poll.snapshots)
             pushed ==
                 IF ~fetchThrows /\ PollDue(manifest, now, LOOKAHEAD_SEC * 1000)
                 THEN Append(poll.publishSnapshotList,
                             [ org |-> msg.body.org, site |-> msg.body.site,
                               snapshot |-> snapshot,
                               publishAt |-> DateGetTime(manifest.scheduledPublish).ms ])
                 ELSE poll.publishSnapshotList
             looked == [ poll EXCEPT !.snapshots = Tail(@),
                                     !.publishSnapshotList = pushed ]
         IN  /\ faults' = faults + Cost(fetchThrows)
             /\ poll' = IF Len(looked.snapshots) > 0 THEN looked
                        ELSE IF Len(pushed) > 0
                        THEN [ looked EXCEPT !.pc = "send" ]
                        ELSE PollContinue(looked)
    /\ UNCHANGED <<now, scheduleJson, completed, failed, kv, queue, dlq,
                   cron, pub, dlqw, upd, hist, tenantPollQueue,
                   snap>>

\* One PUBLISH_QUEUE.send of the loop over publishSnapshotList. The runtime
\* may refuse a negative delay; a send that throws ends the sends for this
\* tenant (the catch around processSnapshotList and the loop).
PollSend ==
    /\ poll.pc = "send"
    /\ \E sendThrows \in Throws(MaxFaults - faults), refused \in BOOLEAN :
         LET snapshot == Head(poll.publishSnapshotList)
             delaySeconds == PollDelaySeconds(snapshot.publishAt, now)
             called == [ poll EXCEPT
                           !.publishSnapshotList = Tail(@),
                           !.sendCalls = @ \cup
                               { [ snapshot |-> snapshot, sentAt |-> now,
                                   delaySeconds |-> delaySeconds ] } ]
         IN  /\ refused => delaySeconds < 0
             /\ faults' = faults + Cost(sendThrows)
             /\ IF sendThrows \/ refused
                THEN /\ poll' = PollContinue(called)
                     /\ UNCHANGED queue
                ELSE /\ queue' = queue \cup
                            { [ id |-> << now, snapshot.org, snapshot.site,
                                          snapshot.snapshot >>,
                                body |-> snapshot,
                                notBefore |-> now + Max(0, delaySeconds) * 1000,
                                attempts |-> 0, timestamp |-> now ] }
                     /\ poll' = IF Len(called.publishSnapshotList) > 0
                                THEN called ELSE PollContinue(called)
    /\ UNCHANGED <<now, scheduleJson, completed, failed, kv, dlq,
                   cron, pub, dlqw, upd, hist, tenantPollQueue,
                   snap>>

\* Time passes while the handler waits for a fetch or a send
PollElapse ==
    /\ poll.pc # "idle"
    /\ now < MaxPollMs
    /\ now' = now + PollStepMs
    /\ UNCHANGED <<scheduleJson, completed, failed, kv, queue, dlq,
                   cron, pub, dlqw, upd, faults, hist, tenantPollQueue, poll, snap>>

\* The tenant-poll cron run has sent one poll message per tenant
InitPoll ==
    /\ now = 0
    /\ scheduleJson = [exists |-> FALSE, doc |-> EmptyObject]
    /\ completed = EmptyObject
    /\ failed = EmptyObject
    /\ kv = KvOf(Orgs \X Sites, Orgs \X Sites)
    /\ queue = {}
    /\ dlq = {}
    /\ cron = CronIdle
    /\ pub = PubIdle
    /\ dlqw = DlqIdle
    /\ upd = UpdIdle
    /\ faults = 0
    /\ hist = HistInit
    /\ tenantPollQueue =
           { PollMessage([ org |-> o, site |-> st ], 0, 0, 0) :
               o \in Orgs, st \in Sites }
    /\ poll = PollIdle
    /\ snap = SnapIdle

NextPoll ==
    \/ PollStart
    \/ PollList
    \/ PollManifest
    \/ PollSend
    \/ PollElapse

SpecPoll == InitPoll /\ [][NextPoll]_vars

----------------------------------------------------------------------------
(* Cron runs over several intervals, a tick of which may be missed *)

\* The number of cron intervals a run is followed for
MaxCronTicks == 3

\* Due times between and on the later ticks
TickDues == { 450000, 600000, 900000 }

TickDocs ==
    UNION { { DocOf(f) : f \in [S -> TickDues] } :
            S \in SUBSET (TenantKeys \X SnapshotIds) }

\* One cron interval passes. The tick of the current instant may not have
\* fired, but no two ticks in a row are missed.
TickElapse ==
    /\ now < MaxCronTicks * CRON_INTERVAL_MS
    /\ cron.lastRun >= now - CRON_INTERVAL_MS
    /\ now' = now + CRON_INTERVAL_MS
    /\ UNCHANGED <<scheduleJson, completed, failed, kv, queue, dlq,
                   cron, pub, dlqw, upd, faults, hist, tenantPollQueue, poll, snap>>

InitTicks ==
    /\ now = 0
    /\ \E doc \in TickDocs : scheduleJson = [exists |-> TRUE, doc |-> doc]
    /\ completed = EmptyObject
    /\ failed = EmptyObject
    /\ kv = KvOf(Orgs \X Sites, Orgs \X Sites)
    /\ queue = {}
    /\ dlq = {}
    /\ cron = CronIdle
    /\ pub = PubIdle
    /\ dlqw = DlqIdle
    /\ upd = UpdIdle
    /\ faults = 0
    /\ hist = HistInit
    /\ tenantPollQueue = {}
    /\ poll = PollIdle
    /\ snap = SnapIdle

NextTicks ==
    \/ scheduled
    \/ TickElapse

SpecTicks == InitTicks /\ [][NextTicks]_vars

----------------------------------------------------------------------------
(* The last cron run of a day's schedule and what the workers make of it,
   when the platform keeps going *)

\* The schedule documents at the run: one job for each of some tenants, due
LiveDocs ==
    { DocOf(f) : f \in UNION { [S -> { CRON_INTERVAL_MS }] :
                               S \in SUBSET (TenantKeys \X { "s1" }) } }

\* Every tenant is registered; the key the publish worker reads is stored
\* for every tenant, or for the first site only
LiveKvStores ==
    { KvOf(Orgs \X Sites, Orgs \X Sites),
      KvOf(Orgs \X Sites, Orgs \X { <<"a">> }) }

InitLive ==
    /\ now = MaxTicks * CRON_INTERVAL_MS
    /\ \E doc \in LiveDocs : scheduleJson = [exists |-> TRUE, doc |-> doc]
    /\ completed = EmptyObject
    /\ failed = EmptyObject
    /\ kv \in LiveKvStores
    /\ queue = {}
    /\ dlq = {}
    /\ cron = CronIdle
    /\ pub = PubIdle
    /\ dlqw = DlqIdle
    /\ upd = UpdIdle
    /\ faults = 0
    /\ hist = HistInit
    /\ tenantPollQueue = {}
    /\ poll = PollIdle
    /\ snap = SnapIdle

NextLive ==
    \/ scheduled
    \/ PubStart
    \/ PubScheduleGet
    \/ PubSchedulePut
    \/ DlqStart
    \/ DlqScheduleGet
    \/ DlqSchedulePut

\* The cron trigger fires, the queue runtime delivers what it holds, and a
\* handler that has started finishes
Fairness ==
    /\ WF_vars(scheduled)
    /\ WF_vars(PubStart)
    /\ WF_vars(PubScheduleGet)
    /\ WF_vars(PubSchedulePut)
    /\ WF_vars(DlqStart)
    /\ WF_vars(DlqScheduleGet)
    /\ WF_vars(DlqSchedulePut)

SpecLive == InitLive /\ [][NextLive]_vars /\ Fairness

----------------------------------------------------------------------------
(* Publish worker, per-message revision (src/publish/src/index.js): every
   message is published, recorded and removed on its own *)

\* getApiToken: whether it returns a token (null when none is stored under
\* org--site--apiToken or the KV read throws)
getApiToken(stored, outcome) == stored /\ outcome # "kv_throws"

\* A queue() that lets the error of a step out
PerMessageRethrow(threw) == threw

\* queue(): "catch (err) { console.error(...) }" around the three steps of
\* a message, and the try/catch inside moveToCompleted and
\* updateScheduledJson: whether an error thrown in a step leaves queue()
PerMessageCatch(threw) == FALSE

\* The loop goes on with the next message, or queue() returns and the
\* runtime acknowledges the batch
PerMessageContinue(p) ==
    IF p.calls < Len(p.batch)
    THEN [ p EXCEPT !.pc = "publish" ]
    ELSE PubDone(p, "returned")

\* The runtime delivers a batch and queue() starts
PerMessageStart ==
    /\ pub.pc = "idle"
    /\ \E batch \in Batches(queue) :
         /\ pub' = [ PubIdle EXCEPT !.pc = "publish", !.batch = batch,
                                    !.n = Len(batch), !.result = "running" ]
         /\ queue' = queue \ Taken(queue, batch)
    /\ UNCHANGED <<now, scheduleJson, completed, failed, kv, dlq, cron,
                   dlqw, upd, faults, hist, tenantPollQueue, poll, snap>>

\* Step 1 and step 2 of one message: publishSnapshot and, when it returned
\* true, moveToCompleted (the read of the bucket starts from [] when it
\* throws; an error of the put is logged and false is returned, which
\* queue() does not look at)
PerMessagePublish ==
    /\ pub.pc = "publish"
    /\ \E outcome \in PublishOutcomes,
          getThrows \in Throws(MaxFaults - faults),
          putThrows \in Throws(MaxFaults - faults) :
         LET i == pub.calls + 1
             body == pub.batch[i].body
             stored == ApiTokenKey(body.org, body.site) \in kv
             apiToken == getApiToken(stored, outcome)
             publishSuccess == publishSnapshot(apiToken, outcome)
             cost == Cost(outcome # "ok") + Cost(getThrows) + Cost(putThrows)
             called == [ pub EXCEPT
                           !.calls = i,
                           !.requests = @ + Cost(apiToken),
                           !.okCalls = @ + Cost(apiToken /\ outcome = "ok"),
                           !.succeededJobs =
                               IF apiToken /\ outcome = "ok"
                               THEN @ \cup { JobOf(body) } ELSE @,
                           !.failedAt = IF @ = 0 /\ ~publishSuccess THEN i ELSE @,
                           !.noCredential = @ \/ ~stored ]
             today == Today(now)
             existing == IF today \in DOMAIN completed /\ ~getThrows
                         THEN completed[today] ELSE << >>
             completedData == [ org |-> body.org, site |-> body.site,
                                snapshotId |-> body.snapshotId,
                                scheduledPublish |-> body.scheduledPublish,
                                publishedAt |-> now ]
         IN  /\ ~stored => outcome = "ok"
             /\ ~publishSuccess => ~getThrows /\ ~putThrows
             /\ cost <= MaxFaults - faults
             /\ faults' = faults + cost
             /\ hist' = [ hist EXCEPT
                            !.succeeded = @ \cup called.succeededJobs ]
             /\ IF ~publishSuccess
                THEN /\ pub' = PerMessageContinue(called)
                     /\ UNCHANGED <<completed, queue, dlq>>
                ELSE IF putThrows /\ PerMessageCatch(TRUE)
                THEN /\ PubRaise(called)
                     /\ UNCHANGED completed
                ELSE /\ completed' =
                            IF putThrows THEN completed
                            ELSE SetKey(completed, today,
                                        batchMoveToCompleted(existing, << completedData >>))
                     /\ pub' = [ called EXCEPT
                                   !.pc = "schedule",
                                   !.publishedSnapshots = Append(@, completedData),
                                   !.completedPuts = @ + Cost(~putThrows) ]
                     /\ UNCHANGED <<queue, dlq>>
    /\ UNCHANGED <<now, scheduleJson, failed, kv, cron, dlqw, upd,
                   tenantPollQueue, poll, snap>>

\* Step 3 of one message: updateScheduledJson. It returns false without a
\* put when schedule.json is absent, when the job is not stored, and when
\* the get or the put throws.
PerMessageSchedule ==
    /\ pub.pc = "schedule"
    /\ \E getThrows \in Throws(MaxFaults - faults),
          putThrows \in Throws(MaxFaults - faults) :
         LET body == pub.batch[pub.calls].body
             e == JobOf(body)
             found == /\ scheduleJson.exists /\ ~getThrows
                      /\ e \in Entries(scheduleJson.doc)
             r == RemoveSnapshot([ schedule |-> scheduleJson.doc, threw |-> FALSE,
                                   removedCount |-> 0 ],
                                 body)
         IN  /\ putThrows => found /\ ~getThrows
             /\ Cost(getThrows) + Cost(putThrows) <= MaxFaults - faults
             /\ faults' = faults + Cost(getThrows) + Cost(putThrows)
             /\ IF (getThrows \/ putThrows) /\ PerMessageCatch(TRUE)
                THEN /\ PubRaise(pub)
                     /\ UNCHANGED scheduleJson
                ELSE /\ scheduleJson' =
                            IF found /\ ~putThrows
                            THEN PutSchedule(scheduleJson, r.schedule)
                            ELSE scheduleJson
                     /\ pub' = PerMessageContinue(
                                   [ pub EXCEPT
                                       !.schedulePuts =
                                           @ + Cost(found /\ ~putThrows) ])
                     /\ UNCHANGED <<queue, dlq>>
    /\ UNCHANGED <<now, completed, failed, kv, cron, dlqw, upd, hist,
                   tenantPollQueue, poll, snap>>

\* The schedule documents the workers start from: one job due at once for
\* each of some tenants
PerMessageDocs ==
    { DocOf(f) : f \in UNION { [S -> { 0 }] :
                               S \in SUBSET (TenantKeys \X { "s1" }) } }

\* Every tenant is registered, or the first site only
PerMessageKvStores ==
    { KvOf(Orgs \X Sites, {}), KvOf(Orgs \X { <<"a">> }, {}) }

InitPerMessage ==
    /\ now = 0
    /\ \E doc \in PerMessageDocs : scheduleJson = [exists |-> TRUE, doc |-> doc]
    /\ completed = EmptyObject
    /\ failed = EmptyObject
    /\ kv \in PerMessageKvStores
    /\ queue = {}
    /\ dlq = {}
    /\ cron = CronIdle
    /\ pub = PubIdle
    /\ dlqw = DlqIdle
    /\ upd = UpdIdle
    /\ faults = 0
    /\ hist = HistInit
    /\ tenantPollQueue = {}
    /\ poll = PollIdle
    /\ snap = SnapIdle

NextPerMessage ==
    \/ scheduled
    \/ Advance
    \/ PerMessageStart
    \/ PerMessagePublish
    \/ PerMessageSchedule

SpecPerMessage == InitPerMessage /\ [][NextPerMessage]_vars

----------------------------------------------------------------------------
(* Publish worker, publish-snapshot revision *)

\* "await env.PUBLISH_QUEUE.send(messageBody, { delaySeconds: 30 })"
REQUEUE_DELAY_SEC == 30

\* The last instant of a run of this worker
MaxSnapMs == 90000

\* What the publish request of the admin API may do: answer, throw, or
\* answer with an error status and a JSON body (which does not throw)
SnapOutcomes == { "ok", "fetch_throws", "rejected" }

\* The job a message of the tenant-poll worker is about
SnapJobOf(body) == << OrgSiteKey(body.org, body.site), body.snapshot >>

\* queue(): "catch (err) { console.error(...) }" around publishSnapshot:
\* whether an error thrown by publishSnapshot leaves queue()
SnapQueueCatch(threw) == FALSE

\* The loop goes on with the next message of the batch, or queue() returns
SnapContinue(p) ==
    IF p.i < Len(p.batch)
    THEN [ p EXCEPT !.i = @ + 1 ]
    ELSE [ p EXCEPT !.pc = "idle", !.batch = << >>, !.i = 0 ]

\* The runtime delivers a batch and queue() starts
SnapStart ==
    /\ snap.pc = "idle"
    /\ \E batch \in Batches(queue) :
         /\ snap' = [ snap EXCEPT !.pc = "publish", !.batch = batch, !.i = 1 ]
         /\ queue' = queue \ Taken(queue, batch)
    /\ UNCHANGED <<now, scheduleJson, completed, failed, kv, dlq, cron, pub,
                   dlqw, upd, faults, hist, tenantPollQueue, poll>>

\* publishSnapshot for one message: the publish request; in its catch the
\* PUBLISH_QUEUE.send of the same body with a delay of 30 seconds; then,
\* after the try statement, the request that updates the manifest, whose
\* own errors are caught and logged. An error of the send in the catch
\* leaves publishSnapshot before the manifest update.
SnapPublish ==
    /\ snap.pc = "publish"
    /\ \E outcome \in SnapOutcomes,
          sendThrows \in Throws(MaxFaults - faults),
          manifestThrows \in BOOLEAN :
         LET msg == snap.batch[snap.i]
             body == msg.body
             job == SnapJobOf(body)
             publishThrew == outcome = "fetch_throws"
             threw == publishThrew /\ sendThrows
             updated == ~threw /\ ~manifestThrows
             called ==
                 [ snap EXCEPT
                     !.calls = @ \cup { [ job |-> job, at |-> now,
                                          outcome |-> outcome ] },
                     !.published = IF outcome = "ok" THEN @ \cup { job } ELSE @,
                     !.resent =
                         IF publishThrew /\ ~sendThrows
                         THEN @ \cup { [ job |-> job, at |-> now,
                                         delaySeconds |-> REQUEUE_DELAY_SEC ] }
                         ELSE @,
                     !.patches =
                         IF updated
                         THEN @ \cup { [ job |-> job, at |-> now,
                                         publishOk |-> outcome = "ok" ] }
                         ELSE @,
                     !.manifests = IF updated THEN @ \cup { job } ELSE @ ]
             sent == IF publishThrew /\ ~sendThrows
                     THEN { [ id |-> << now, body.org, body.site, body.snapshot >>,
                              body |-> body,
                              notBefore |-> now + REQUEUE_DELAY_SEC * 1000,
                              attempts |-> 0, timestamp |-> now ] }
                     ELSE {}
         IN  /\ sendThrows => publishThrew
             /\ manifestThrows => ~threw
             /\ faults' = faults + Cost(sendThrows)
             /\ IF SnapQueueCatch(threw)
                THEN /\ snap' = [ called EXCEPT !.pc = "idle", !.batch = << >>,
                                                !.i = 0, !.raised = TRUE ]
                     /\ queue' = queue \cup sent \cup Redelivered(snap.batch)
                     /\ dlq' = dlq \cup DeadLettered(snap.batch)
                ELSE /\ snap' = SnapContinue(called)
                     /\ queue' = queue \cup sent
                     /\ UNCHANGED dlq
    /\ UNCHANGED <<now, scheduleJson, completed, failed, kv, cron, pub,
                   dlqw, upd, hist, tenantPollQueue, poll>>

\* Time passes: the delay of a message sent again
SnapElapse ==
    /\ now < MaxSnapMs
    /\ now' = now + REQUEUE_DELAY_SEC * 1000
    /\ UNCHANGED <<scheduleJson, completed, failed, kv, queue, dlq, cron, pub,
                   dlqw, upd, faults, hist, tenantPollQueue, poll, snap>>

\* The messages the tenant-poll worker has sent for the snapshots that are
\* due now
SnapMessages ==
    { [ id |-> << 0, o, st, "s1" >>,
        body |-> [ org |-> o, site |-> st, snapshot |-> "s1", publishAt |-> 0 ],
        notBefore |-> 0, attempts |-> 0, timestamp |-> 0 ] :
        o \in Orgs, st \in Sites }

InitSnap ==
    /\ now = 0
    /\ scheduleJson = [exists |-> FALSE, doc |-> EmptyObject]
    /\ completed = EmptyObject
    /\ failed = EmptyObject
    /\ kv = KvOf(Orgs \X Sites, Orgs \X Sites)
    /\ queue \in (SUBSET SnapMessages) \ { {} }
    /\ dlq = {}
    /\ cron = CronIdle
    /\ pub = PubIdle
    /\ dlqw = DlqIdle
    /\ upd = UpdIdle
    /\ faults = 0
    /\ hist = HistInit
    /\ tenantPollQueue = {}
    /\ poll = PollIdle
    /\ snap = SnapIdle

NextSnap ==
    \/ SnapStart
    \/ SnapPublish
    \/ SnapElapse

SpecSnap == InitSnap /\ [][NextSnap]_vars

-----------------------------------------------------------------------------
(* The tenant key from the schedule API to the cron worker *)

\* Organization and site names over a letter and the character of the
\* separator, up to MaxNameLen characters
KeyChars == { "x", "-" }
MaxNameLen == 2
KeyNames == UNION { [1..n -> KeyChars] : n \in 1..MaxNameLen }

\* Every tenant is registered; nothing is stored yet
InitKey ==
    /\ now = 0
    /\ scheduleJson = [exists |-> FALSE, doc |-> EmptyObject]
    /\ completed = EmptyObject
    /\ failed = EmptyObject
    /\ kv = KvOf(KeyNames \X KeyNames, KeyNames \X KeyNames)
    /\ queue = {}
    /\ dlq = {}
    /\ cron = CronIdle
    /\ pub = PubIdle
    /\ dlqw = DlqIdle
    /\ upd = UpdIdle
    /\ faults = 0
    /\ hist = HistInit
    /\ tenantPollQueue = {}
    /\ poll = PollIdle
    /\ snap = SnapIdle

NextKey ==
    \/ \E org \in KeyNames, site \in KeyNames :
         updateScheduleLoad(org, site, "s1", LOOKAHEAD_MS)
    \/ updateSchedulePut
    \/ scheduled

SpecKey == InitKey /\ [][NextKey]_vars

-----------------------------------------------------------------------------
(* Properties of the publish worker *)

\* C1 (fail-fast batch): when the publish call of the k-th job of a batch
\* fails, the invocation makes no publish call for the jobs k+1..N, puts
\* neither a completed bucket nor schedule.json, and raises.
FailFastBatch ==
    pub.failedAt # 0 =>
        /\ pub.pc = "idle"
        /\ pub.result = "raised"
        /\ pub.calls = pub.failedAt
        /\ pub.completedPuts = 0
        /\ pub.schedulePuts = 0

\* C1 happens: the first call of a batch of two failed and the second job
\* was not called
FailFastBatchSeen ==
    /\ pub.n = 2 /\ pub.failedAt = 1 /\ pub.calls = 1
    /\ pub.result = "raised"

\* The jobs of a batch of snapshots
JobsOf(snapshots) == { JobOf(snapshots[i]) : i \in 1..Len(snapshots) }

\* A schedule document without the given jobs: a tenant stays with the jobs
\* it has left, and only if it has any
Without(schedule, jobs) ==
    [ k \in { t \in DOMAIN schedule :
                \E id \in DOMAIN schedule[t] : <<t, id>> \notin jobs } |->
        [ id \in { x \in DOMAIN schedule[k] : <<k, x>> \notin jobs } |->
            schedule[k][id] ] ]

\* Today's bucket, empty when there is none
BucketOf(store) ==
    IF Today(now) \in DOMAIN store THEN store[Today(now)] ELSE << >>

\* What a publish invocation saves: the completed bucket holds what was
\* read of it followed by one record per job of the batch, in batch order;
\* the schedule document is the loaded one minus the jobs of the batch.
PublishSaves ==
    /\ (pub.pc = "idle" /\ pub'.pc = "scheduleGet") =>
         LET read == IF pub'.completedReadThrew THEN << >> ELSE BucketOf(completed)
             saved == BucketOf(completed)'
         IN  /\ Len(saved) = Len(read) + pub'.n
             /\ SubSeq(saved, 1, Len(read)) = read
             /\ \A i \in 1..pub'.n :
                  /\ JobOf(saved[Len(read) + i]) = JobOf(pub'.batch[i].body)
                  /\ saved[Len(read) + i].scheduledPublish
                         = pub'.batch[i].body.scheduledPublish
                  /\ saved[Len(read) + i].publishedAt = now
    /\ (pub.pc = "schedulePut" /\ pub'.result = "returned") =>
         /\ scheduleJson'.exists
         /\ scheduleJson'.doc =
                Without(pub.loadedSchedule, JobsOf(pub.publishedSnapshots))
         /\ JobsOf(pub.publishedSnapshots)
                = { JobOf(pub.batch[i].body) : i \in 1..Len(pub.batch) }

NoDuplicatePublishing ==
    /\ ~pub.repeated
    /\ pub.pc = "idle" => hist.succeeded \cap Entries(scheduleJson.doc) = {}

----------------------------------------------------------------------------
(* Properties of the DLQ consumer *)

\* C4 (DLQ resilience): an invocation of the DLQ consumer never raises;
\* when the read or the put of the failed bucket throws it still attempts
\* the removal from schedule.json, and when the load or the put of
\* schedule.json throws it returns.
DlqNeverRaises ==
    /\ dlqw.result # "raised"
    /\ (dlqw.pc = "idle" /\ dlqw.result = "returned") =>
         /\ dlqw.n >= 1
         /\ dlqw.removalCalls = 1
    /\ dlqw.pc = "schedulePut" => dlqw.removalCalls = 1

\* C4 happens: the put of the failed bucket threw, the removal was attempted
\* and the invocation returned
DlqNeverRaisesSeen ==
    /\ dlqw.failedPutThrew
    /\ dlqw.removalCalls = 1
    /\ dlqw.result = "returned"

\* C5 as stated (dead-letter parking): once the DLQ consumer has removed a
\* job from schedule.json in a successful save, the job is absent from
\* schedule.json and no later cron run enqueues it, until it is scheduled
\* again through the schedule API.
ParkingStopsRequeueAsStated ==
    [][ /\ hist'.parked \cap Entries(scheduleJson'.doc) = {}
        /\ cron'.lastRun # cron.lastRun =>
              \A c \in cron'.sendCalls : JobOf(c.snapshot) \notin hist.parked ]_vars

\* C5 (dead-letter parking), amended: once the DLQ consumer has removed a
\* job from schedule.json in a successful save, the job is absent from
\* schedule.json and no later cron run enqueues it, until it is scheduled
\* again through the schedule API or an invocation saves a schedule.json
\* it had loaded before another invocation's save (an overlapping
\* load-mutate-save cycle, whose save is the last writer's).
ParkingStopsRequeue ==
    [][ /\ (hist'.parked \ hist'.exposed) \cap Entries(scheduleJson'.doc) = {}
        /\ cron'.lastRun # cron.lastRun =>
              \A c \in cron'.sendCalls :
                  JobOf(c.snapshot) \notin hist.parked \ hist.exposed ]_vars

\* C5 happens: a job the DLQ consumer has parked was stored through the
\* schedule API before, is out of schedule.json, and a later cron run has
\* passed it over
ParkingStopsRequeueSeen ==
    \E j \in hist.skipped \cap hist.inserted :
        /\ j \in hist.parked \ hist.exposed
        /\ j \notin Entries(scheduleJson.doc)
        /\ cron.result
        /\ \A c \in cron.sendCalls : JobOf(c.snapshot) # j

\* The jobs with a record in a completed or a failed bucket
Recorded ==
    UNION { JobsOf(completed[d]) : d \in DOMAIN completed }
        \cup UNION { JobsOf(failed[d]) : d \in DOMAIN failed }

\* C6 as stated (no silent drop): while no handler is running, every job
\* the schedule API has stored is in schedule.json or has a record in a
\* completed or a failed bucket.
NoSilentDrop ==
    (pub.pc = "idle" /\ dlqw.pc = "idle" /\ upd.pc = "idle") =>
        hist.inserted \subseteq (Entries(scheduleJson.doc) \cup Recorded)

\* C7 (idempotent removal): the removal of a batch does not raise for a job
\* that is absent from the loaded document (its tenant key absent or not),
\* leaves every entry that is not in the batch as it was, leaves the whole
\* document as it was when no job of the batch is in it, and applied to
\* its own result changes nothing.
RemovalIdempotent ==
    /\ ~pub.removalThrew
    /\ ~dlqw.removalThrew
    /\ pub.pc = "schedulePut" =>
         LET again == batchUpdateScheduledJson(pub.schedule, pub.publishedSnapshots)
             batch == JobsOf(pub.publishedSnapshots)
         IN  /\ ~again.threw
             /\ again.schedule = pub.schedule
             /\ batch \cap Entries(pub.loadedSchedule) = {}
                    => pub.schedule = pub.loadedSchedule
             /\ \A e \in Entries(pub.loadedSchedule) \ batch :
                    /\ e \in Entries(pub.schedule)
                    /\ pub.schedule[e[1]][e[2]] = pub.loadedSchedule[e[1]][e[2]]
    /\ dlqw.pc = "schedulePut" =>
         LET again == batchRemoveFromScheduledJson(dlqw.schedule, dlqw.failedMessages)
             batch == JobsOf(dlqw.failedMessages)
         IN  /\ ~again.threw
             /\ again.schedule = dlqw.schedule
             /\ batch \cap Entries(dlqw.loadedSchedule) = {}
                    => dlqw.schedule = dlqw.loadedSchedule
             /\ \A e \in Entries(dlqw.loadedSchedule) \ batch :
                    /\ e \in Entries(dlqw.schedule)
                    /\ dlqw.schedule[e[1]][e[2]] = dlqw.loadedSchedule[e[1]][e[2]]

\* C7 happens: both workers have removed a batch of two jobs from a loaded
\* document that holds one of them and lacks the tenant key of the other
RemovalIdempotentSeen ==
    /\ pub.pc = "schedulePut" /\ dlqw.pc = "schedulePut"
    /\ Len(pub.publishedSnapshots) = 2
    /\ JobOf(pub.publishedSnapshots[1]) \in Entries(pub.loadedSchedule)
    /\ OrgSiteKey(pub.publishedSnapshots[2].org, pub.publishedSnapshots[2].site)
           \notin DOMAIN pub.loadedSchedule
    /\ OrgSiteKey(dlqw.failedMessages[2].org, dlqw.failedMessages[2].site)
           \notin DOMAIN dlqw.loadedSchedule
    /\ pub.schedule # pub.loadedSchedule

\* The tenants of a loaded document whose jobs are all in the batch
Emptied(schedule, jobs) ==
    { k \in DOMAIN schedule : \A id \in DOMAIN schedule[k] : <<k, id>> \in jobs }

\* C8 (empty-tenant invariant): no tenant key of schedule.json maps to an
\* empty job map, and a save that removes the last job of a tenant removes
\* the tenant key with it.
NoEmptyTenant ==
    [][ /\ \A k \in DOMAIN scheduleJson'.doc : DOMAIN scheduleJson'.doc[k] # {}
        /\ (pub.pc = "schedulePut" /\ pub'.result = "returned") =>
              Emptied(pub.loadedSchedule, JobsOf(pub.publishedSnapshots))
                  \cap DOMAIN scheduleJson'.doc = {}
        /\ (dlqw.pc = "schedulePut" /\ dlqw'.schedulePuts = 1
                /\ ~dlqw'.scheduleThrew) =>
              Emptied(dlqw.loadedSchedule, JobsOf(dlqw.failedMessages))
                  \cap DOMAIN scheduleJson'.doc = {} ]_vars

\* C8 happens: a removal has taken the last job of the last tenant, and
\* schedule.json is the empty object
NoEmptyTenantSeen ==
    /\ scheduleJson.exists
    /\ DOMAIN scheduleJson.doc = {}
    /\ hist.inserted # {}
    /\ pub.result = "returned"

----------------------------------------------------------------------------
(* Properties of the cron worker *)

\* C9 (discovery delay): every message a cron run sends has a delay d >= 0
\* in whole seconds that is the least with now + d seconds at or after the
\* scheduled instant: 0 when the instant is not after now, and otherwise
\* 1000 * (d - 1) < instant - now <= 1000 * d.
DiscoveryDelay ==
    \A c \in cron.sendCalls :
        LET ahead == c.snapshot.scheduledPublish - cron.lastRun
            d == c.delaySeconds
        IN  /\ d \in Nat
            /\ ahead <= 0 => d = 0
            /\ ahead > 0 => (1000 * (d - 1) < ahead /\ ahead <= 1000 * d)
            /\ \A m \in queue :
                   (m.body = c.snapshot /\ m.timestamp = cron.lastRun) =>
                       m.notBefore = cron.lastRun + 1000 * d

\* C9 happens: one run has sent a past-due entry at once, an entry a
\* millisecond ahead with a second of delay and an entry a second and a
\* half ahead with two seconds of delay
DiscoveryDelaySeen ==
    /\ cron.lastRun = 1000
    /\ \E c \in cron.sendCalls :
          c.snapshot.scheduledPublish = 0 /\ c.delaySeconds = 0
    /\ \E c \in cron.sendCalls :
          c.snapshot.scheduledPublish = 1001 /\ c.delaySeconds = 1
    /\ \E c \in cron.sendCalls :
          c.snapshot.scheduledPublish = 2500 /\ c.delaySeconds = 2

\* C10 (lookahead boundary): a cron run at time now that has loaded the
\* schedule sends the message of an entry with a well-formed tenant key
\* and a parseable scheduled instant exactly when the instant is at or
\* before now + 5 minutes; past-due entries are sent.
LookaheadBoundary ==
    [][ (cron'.lastRun # cron.lastRun /\ cron'.result) =>
          \A e \in Entries(scheduleJson.doc) :
              LET instant == scheduleJson.doc[e[1]][e[2]]
              IN  instant # INVALID_DATE =>
                    ((\E c \in cron'.sendCalls :
                          /\ OrgSiteKey(c.snapshot.org, c.snapshot.site) = e[1]
                          /\ c.snapshot.snapshotId = e[2]
                          /\ c.snapshot.scheduledPublish = instant)
                      <=> instant <= now + 5 * 60 * 1000) ]_vars

\* C10 happens: one run has sent the entry scheduled exactly 5 minutes
\* ahead and a past-due entry, and has left out the entry one millisecond
\* further
LookaheadBoundarySeen ==
    /\ cron.lastRun = 1000 /\ cron.result
    /\ \E c \in cron.sendCalls : c.snapshot.scheduledPublish = 301000
    /\ \E c \in cron.sendCalls : c.snapshot.scheduledPublish = 0
    /\ \E e \in Entries(scheduleJson.doc) : scheduleJson.doc[e[1]][e[2]] = 301001
    /\ \A c \in cron.sendCalls : c.snapshot.scheduledPublish # 301001

\* The send a cron run called for the entry e of the schedule document
SentFor(e) ==
    \E c \in cron.sendCalls :
        /\ OrgSiteKey(c.snapshot.org, c.snapshot.site) = e[1]
        /\ c.snapshot.snapshotId = e[2]

\* C11 (timer handler never throws): no run of scheduled() lets an error
\* out. A run in which the load or the parse of schedule.json throws
\* returns false, calls no send and leaves the queue as it was; every
\* other run returns true, whether schedule.json is absent, nothing is due
\* or sends have failed.
TimerNeverThrows ==
    [][ cron'.lastRun # cron.lastRun =>
          /\ ~cron'.raised
          /\ cron'.loadThrew =>
                (~cron'.result /\ cron'.sendCalls = {} /\ queue' = queue)
          /\ ~cron'.loadThrew => cron'.result ]_vars

\* C11 happens: the load threw in a run over a stored schedule with a due
\* job, and the run returned false with nothing sent
TimerNeverThrowsSeen ==
    /\ cron.lastRun >= 0 /\ cron.loadThrew /\ ~cron.result
    /\ scheduleJson.exists
    /\ getScheduledSnapshots(scheduleJson.doc, cron.lastRun) # {}
    /\ queue = {}

\* C12 (malformed entries do not block siblings): in a run that has loaded
\* the schedule, an entry whose due time is no date is not sent, and every
\* other entry, of the same tenant or of another, whose due time parses
\* and is within the lookahead window is sent.
MalformedSkipped ==
    (cron.lastRun >= 0 /\ ~cron.loadThrew) =>
        \A bad \in Entries(scheduleJson.doc) :
            scheduleJson.doc[bad[1]][bad[2]] = INVALID_DATE =>
                /\ ~SentFor(bad)
                /\ \A e \in Entries(scheduleJson.doc) \ { bad } :
                       LET instant == scheduleJson.doc[e[1]][e[2]]
                       IN  (instant # INVALID_DATE
                              /\ instant <= cron.lastRun + LOOKAHEAD_MS)
                               => SentFor(e)

\* C12 happens: a run over a document with an unparseable entry has sent a
\* due entry of the same tenant and a due entry of the other tenant
MalformedSkippedSeen ==
    /\ cron.lastRun >= 0 /\ ~cron.loadThrew
    /\ \E bad \in Entries(scheduleJson.doc) :
          /\ scheduleJson.doc[bad[1]][bad[2]] = INVALID_DATE
          /\ ~SentFor(bad)
          /\ \E e1, e2 \in Entries(scheduleJson.doc) :
                /\ e1[1] = bad[1] /\ e1 # bad /\ SentFor(e1)
                /\ e2[1] # bad[1] /\ SentFor(e2)

\* C13 (queue-send failure isolation): in a run in which a send has
\* thrown, a send was called for every due job of the loaded schedule, the
\* message of every job whose send did not throw is in the queue, and
\* scheduled() returned true.
SendFailureIsolated ==
    cron.failedSends # {} =>
        /\ cron.result /\ ~cron.raised
        /\ { c.snapshot : c \in cron.sendCalls } =
               getScheduledSnapshots(scheduleJson.doc, cron.lastRun)
        /\ \A c \in cron.sendCalls :
               c.snapshot \notin cron.failedSends =>
                   QueueMessage(c.snapshot, c.delaySeconds, cron.lastRun) \in queue

\* C13 happens: of three due jobs one send threw and the two others are
\* queued
SendFailureIsolatedSeen ==
    /\ Cardinality(cron.failedSends) = 1
    /\ Cardinality(cron.sendCalls) = 3
    /\ Cardinality(queue) = 2
    /\ cron.result

----------------------------------------------------------------------------
(* Properties of the publish worker's error handling and bookkeeping *)

\* A step in which the runtime delivers a batch and queue() starts
Delivery == pub.pc = "idle" /\ cron' = cron /\ queue' # queue

\* The runtime takes the batch back after queue() raised: every message is
\* queued again or, with its attempts used up, dead-lettered
TakenBack(batch) ==
    /\ queue' = (queue \ Taken(queue, batch)) \cup Redelivered(batch)
    /\ dlq' = dlq \cup DeadLettered(batch)

\* C14 (missing credential fails the batch): an invocation of the publish
\* worker that reaches a job for whose tenant no API key is stored sends no
\* request for that job, raises, writes neither the completed bucket nor
\* schedule.json, and its whole batch is redelivered or dead-lettered.
MissingCredentialFailsBatch ==
    [][ (Delivery /\ pub'.noCredential) =>
          /\ pub'.result = "raised"
          /\ pub'.failedAt = pub'.calls
          /\ pub'.requests = pub'.calls - 1
          /\ pub'.completedPuts = 0 /\ pub'.schedulePuts = 0
          /\ completed' = completed /\ scheduleJson' = scheduleJson
          /\ \E batch \in Batches(queue) :
                /\ Len(batch) = pub'.n
                /\ ApiKeyKey(batch[pub'.failedAt].body.org,
                             batch[pub'.failedAt].body.site) \notin kv
                /\ TakenBack(batch) ]_vars

\* C14 happens: the job of a tenant without a stored API key was attempted
\* without any request until its message was dead-lettered
MissingCredentialFailsBatchSeen ==
    /\ pub.noCredential /\ pub.result = "raised"
    /\ pub.calls = 1 /\ pub.requests = 0
    /\ pub.completedPuts = 0 /\ pub.schedulePuts = 0
    /\ dlq # {}

\* C15 (bookkeeping failures raise): when, after every publish call of a
\* batch succeeded, the put of the completed bucket, the load of
\* schedule.json or the put of schedule.json throws, queue() raises and the
\* whole batch is redelivered or dead-lettered.
BookkeepingFailureRaises ==
    [][ ((Delivery \/ pub.pc # "idle")
           /\ pub'.pc = "idle"
           /\ pub'.bookkeepingThrew \in
                  { "completedPut", "scheduleGet", "schedulePut" }) =>
          /\ pub'.result = "raised"
          /\ pub'.failedAt = 0 /\ pub'.requests = pub'.n
          /\ \E batch \in (IF pub.pc = "idle"
                            THEN Batches(queue) ELSE { pub.batch }) :
                Len(batch) = pub'.n /\ TakenBack(batch) ]_vars

\* C15 happens: a batch of two published jobs whose put of schedule.json
\* threw is back in the queue
BookkeepingFailureRaisesSeen ==
    /\ pub.bookkeepingThrew = "schedulePut" /\ pub.result = "raised"
    /\ pub.n = 2 /\ pub.okCalls = 2 /\ pub.completedPuts = 1
    /\ Cardinality({ m \in queue : m.attempts = 1 }) = 2

\* C16 (bookkeeping is idempotent): an invocation that saves the completed
\* bucket for a batch whose messages all had their completion records
\* saved before (a redelivery or a duplicate delivery) leaves the bucket as
\* it was.
BookkeepingIdempotent ==
    [][ (Delivery
           /\ pub'.pc = "scheduleGet" /\ pub'.bookkeepingThrew = "none"
           /\ { pub'.batch[i].id : i \in 1..Len(pub'.batch) } \subseteq hist.booked)
          => completed' = completed ]_vars

\* C17 (audit log is append-only): in every step the content of each
\* completed bucket is a prefix of its content after the step.
AuditAppendOnly ==
    [][ \A d \in DOMAIN completed :
          /\ d \in DOMAIN completed'
          /\ Len(completed[d]) <= Len(completed'[d])
          /\ SubSeq(completed'[d], 1, Len(completed[d])) = completed[d] ]_vars

----------------------------------------------------------------------------
(* Properties of the loads of schedule.json *)

\* A cron run, an updateSchedule, and a removal by the DLQ consumer that
\* find no schedule.json, with no failure injected, go on as with an
\* empty document: the run returns true with nothing sent, the request
\* upserts into {} and is answered 200 once its put is done, the DLQ
\* consumer returns without a save.
AbsentIsEmptyElsewhere ==
    /\ (cron'.lastRun # cron.lastRun /\ ~scheduleJson.exists /\ faults' = faults) =>
          (cron'.result /\ ~cron'.raised /\ cron'.sendCalls = {} /\ queue' = queue)
    /\ (upd.pc = "idle" /\ upd'.pc = "put" /\ ~scheduleJson.exists) =>
          upd'.scheduleData =
              UpsertSchedule(EmptyObject, upd'.org, upd'.site,
                             upd'.snapshotId, upd'.scheduledPublish)
    /\ (upd.pc = "put" /\ upd'.pc = "idle" /\ ~scheduleJson.exists
           /\ faults' = faults) =>
          (upd'.status = 200 /\ scheduleJson' = [exists |-> TRUE,
                                                 doc |-> upd.scheduleData])
    /\ (dlqw.pc = "scheduleGet" /\ dlqw'.pc # "scheduleGet"
           /\ ~scheduleJson.exists /\ faults' = faults) =>
          (dlqw'.result = "returned" /\ dlqw'.schedulePuts = 0
             /\ scheduleJson' = scheduleJson)

\* The publish worker loads schedule.json and finds none, no failure injected
PubLoadsAbsent ==
    /\ pub.pc = "scheduleGet" /\ pub'.pc # "scheduleGet"
    /\ ~scheduleJson.exists /\ faults' = faults

----------------------------------------------------------------------------
(* Properties of the scheduling API *)

MinimumLeadTime ==
    [][ (upd.pc = "idle" /\ upd'.pc = "put") =>
          upd'.scheduledPublish >= now + 5 * 60 * 1000 ]_vars

\* C21 (authorization guards the schedule): updateSchedule lets no request
\* through to the save of schedule.json that carries no Authorization
\* header or a token the admin API does not accept.
AuthorizationGuardsSchedule ==
    [][ (upd.pc = "idle" /\ upd'.pc = "put") =>
          upd'.authorization = "accepted" ]_vars

----------------------------------------------------------------------------
(* Properties of the load-mutate-save cycles on schedule.json *)

\* The save of schedule.json that ends a cycle of updateSchedule, of the
\* publish worker, of the DLQ consumer
UpdSaves == upd.pc = "put" /\ upd'.pc = "idle" /\ upd'.status = 200
PubSaves == pub.pc = "schedulePut" /\ pub'.result = "returned"
DlqSaves ==
    /\ dlqw.pc = "schedulePut" /\ dlqw'.pc = "idle"
    /\ dlqw'.result = "returned" /\ ~dlqw'.scheduleThrew

\* C22 (last writer wins): schedule.json changes only in the save of a
\* load-mutate-save cycle, and after the save it is exactly the document
\* of that cycle (what the cycle loaded, with its own upsert or removal),
\* whatever other cycles have saved since the load: their insertions and
\* removals are not in it unless they were in the loaded document.
LastWriterWins ==
    [][ /\ UpdSaves => scheduleJson'.doc = upd.scheduleData
        /\ PubSaves =>
              scheduleJson'.doc =
                  Without(pub.loadedSchedule, JobsOf(pub.publishedSnapshots))
        /\ DlqSaves =>
              scheduleJson'.doc =
                  Without(dlqw.loadedSchedule, JobsOf(dlqw.failedMessages))
        /\ scheduleJson' # scheduleJson => (UpdSaves \/ PubSaves \/ DlqSaves) ]_vars

\* C22 happens: with no failure injected and every handler ended, a job
\* that updateSchedule has stored is neither in schedule.json nor recorded
\* as completed or failed: the save of an overlapping cycle has dropped it
LastWriterWinsSeen ==
    /\ faults = 0
    /\ pub.pc = "idle" /\ dlqw.pc = "idle" /\ upd.pc = "idle"
    /\ pub.result = "returned"
    /\ \E j \in hist.inserted :
          j \notin Entries(scheduleJson.doc) \cup Recorded

\* The entries of the document `after` are those of `before` but for the
\* given jobs, each with the due time it had
Frame(before, after, jobs) ==
    /\ Entries(after) = Entries(before) \ jobs
    /\ \A e \in Entries(after) : after[e[1]][e[2]] = before[e[1]][e[2]]

\* C23 (removal frame): the document the publish worker or the DLQ
\* consumer saves after its batch removal has every entry of the document
\* it loaded except the (tenant, job) entries of its batch, each unchanged,
\* and no other entry.
RemovalFrame ==
    [][ /\ PubSaves =>
              Frame(pub.loadedSchedule, scheduleJson'.doc,
                    { JobOf(pub.batch[i].body) : i \in 1..Len(pub.batch) })
        /\ DlqSaves =>
              Frame(dlqw.loadedSchedule, scheduleJson'.doc,
                    JobsOf(dlqw.failedMessages)) ]_vars

\* C23 happens: the publish worker has removed one job of a document of
\* four and saved the three others, the job of the same tenant among them
RemovalFrameSeen ==
    /\ pub.result = "returned" /\ pub.n = 1 /\ pub.schedulePuts = 1
    /\ dlqw.pc = "scheduleGet"
    /\ Cardinality(Entries(scheduleJson.doc)) = 3
    /\ DOMAIN scheduleJson.doc = TenantKeys

----------------------------------------------------------------------------
(* Properties of the tenant-poll worker *)

\* C24 (delay of the tenant-poll sends): every PUBLISH_QUEUE.send of the
\* tenant-poll queue handler carries
\* delaySeconds = max(0, ceil((publishAt - now) / 1000)) with now read at
\* the send, so no send carries a negative delay, whatever time passed
\* since processSnapshotList compared the due time with its own now.
PollDelayNeverNegative ==
    \A c \in poll.sendCalls :
        /\ c.delaySeconds >= 0
        /\ c.delaySeconds =
               Max(0, CeilDiv(c.snapshot.publishAt - c.sentAt, 1000))

\* C25 (tenant-level retry): every poll message whose snapshot-list fetch
\* failed has been sent again to TENANT_POLL_QUEUE with delaySeconds 30,
\* and no poll message has caused more than one such re-send.
PollListFailureResent ==
    /\ \A id \in poll.listFailed :
          \E r \in poll.resent :
              r.of = id /\ r.delaySeconds = POLL_RETRY_DELAY_SEC
    /\ \A id \in poll.listFailed :
          Cardinality({ r \in poll.resent : r.of = id }) <= 1

----------------------------------------------------------------------------
(* Properties of the cron runs over several intervals *)

\* C26 (lookahead covers a missed tick): when no two ticks in a row are
\* missed and no load or send has failed, every job that has been in
\* schedule.json for at least one whole interval before its due time has,
\* once a tick at or after its due time has run, a message sent by a tick
\* that fired no later than the due time.
LookaheadCoversMissedTick ==
    (faults = 0 /\ cron.lastRun = now) =>
        \A e \in Entries(scheduleJson.doc) :
            LET due == scheduleJson.doc[e[1]][e[2]]
            IN  (due >= CRON_INTERVAL_MS /\ due <= now) =>
                    \E m \in queue :
                        /\ JobOf(m.body) = e
                        /\ m.timestamp <= due

\* C27 (re-discovery): a cron run that has loaded schedule.json sends a
\* message for every entry that is past due or within the lookahead
\* window, whether or not earlier runs sent one for it; unless that send
\* threw, the queue then holds a new message of this run for the job next
\* to every message it held before.
ReDiscovery ==
    [][ (cron'.lastRun # cron.lastRun /\ ~cron'.loadThrew) =>
          /\ queue \subseteq queue'
          /\ \A e \in Entries(scheduleJson.doc) :
                LET due == scheduleJson.doc[e[1]][e[2]]
                IN  (due # INVALID_DATE /\ due <= now + LOOKAHEAD_MS) =>
                      /\ \E c \in cron'.sendCalls : JobOf(c.snapshot) = e
                      /\ (\A sn \in cron'.failedSends : JobOf(sn) # e) =>
                            \E m \in queue' \ queue :
                                JobOf(m.body) = e /\ m.timestamp = now ]_vars

\* C27 happens: a job due 5 minutes after the first run is still in
\* schedule.json after the second run, and the queue holds the message of
\* each of the two runs for it
ReDiscoverySeen ==
    /\ cron.lastRun = CRON_INTERVAL_MS
    /\ \E e \in Entries(scheduleJson.doc) :
          /\ scheduleJson.doc[e[1]][e[2]] = LOOKAHEAD_MS
          /\ \E m1, m2 \in queue :
                /\ JobOf(m1.body) = e /\ JobOf(m2.body) = e
                /\ m1.timestamp = 0 /\ m2.timestamp = CRON_INTERVAL_MS

----------------------------------------------------------------------------
(* Properties of redelivery *)

\* C28 (redelivery republishes): every invocation of the publish worker,
\* whatever the attempts of its messages, makes its publish calls for the
\* jobs of the batch in order up to the first call that fails, all of them
\* when none fails; a job whose publish request succeeded in an earlier
\* invocation is called again when its message is delivered again.
RedeliveryRepublishes ==
    [][ LET taken == queue \ queue'
        IN  (pub.pc = "idle" /\ taken # {}) =>
              /\ pub'.n = Cardinality(taken)
              /\ pub'.calls = IF pub'.failedAt = 0 THEN pub'.n ELSE pub'.failedAt
              /\ pub'.failedAt = 0 => pub'.requests = pub'.n
              /\ ( /\ pub'.failedAt = 0
                   /\ \E m \in taken :
                         m.attempts >= 1 /\ JobOf(m.body) \in hist.succeeded )
                     => pub'.repeated ]_vars

\* C28 happens: a batch of two is delivered for the second time after the
\* call of one of its jobs failed; both jobs are called, the one whose
\* request had succeeded among them
RedeliveryRepublishesSeen ==
    /\ pub.pc = "scheduleGet" /\ Len(pub.batch) = 2
    /\ \A i \in 1..2 : pub.batch[i].attempts = 2
    /\ pub.repeated /\ pub.calls = 2 /\ pub.okCalls = 2
    /\ faults = MaxFaults

----------------------------------------------------------------------------
(* Properties of the bookkeeping order *)

----------------------------------------------------------------------------
(* Liveness *)

\* The jobs with a record in a completed bucket
Completed ==
    UNION { JobsOf(completed[d]) : d \in DOMAIN completed }

\* C30 (eventual publication): under fair cron ticks, deliveries and
\* handler steps, every job of schedule.json that a cron run has sent to
\* the queue, for a tenant whose API key is stored, is eventually
\* published, recorded in a completed bucket and out of schedule.json,
\* whatever other jobs are delivered with it, in every run in which no
\* request to the admin API, R2 or KV fails.
EventualPublication ==
    \A e \in TenantKeys \X SnapshotIds :
        ( /\ e \in Entries(scheduleJson.doc)
          /\ ApiKeyKey(SplitOrg(e[1]), SplitSite(e[1])) \in kv
          /\ cron.lastRun = now
          /\ \E m \in queue : JobOf(m.body) = e )
        ~> ( \/ faults > 0
             \/ /\ e \in hist.succeeded
                /\ e \in Completed
                /\ e \notin Entries(scheduleJson.doc) )

----------------------------------------------------------------------------
(* Frame of the cron worker *)

----------------------------------------------------------------------------
(* Properties of the per-message publish worker *)

\* C32 (per-message isolation): queue() of the per-message revision never
\* raises. The step of a message whose publish call fails writes neither
\* schedule.json nor a completed bucket, leaves the job where it is in
\* schedule.json and goes on with the next message; an invocation ends
\* only after the publish call of every message of its batch, and a
\* cron run that loads schedule.json sends every job still stored and due.
PerMessageIsolation ==
    [][ /\ pub'.result # "raised" /\ dlq' = {}
        /\ (pub.pc = "publish" /\ pub'.calls = pub.calls + 1
              /\ Len(pub'.publishedSnapshots) = Len(pub.publishedSnapshots)) =>
              /\ scheduleJson' = scheduleJson
              /\ completed' = completed
              /\ pub'.completedPuts = pub.completedPuts
              /\ pub'.schedulePuts = pub.schedulePuts
              /\ IF pub.calls + 1 < Len(pub.batch)
                 THEN pub'.pc = "publish" /\ pub'.batch = pub.batch
                 ELSE pub'.pc = "idle" /\ pub'.result = "returned"
        /\ (pub.pc # "idle" /\ pub'.pc = "idle") => pub'.calls = pub'.n
        /\ (cron'.lastRun # cron.lastRun /\ ~cron'.loadThrew) =>
              \A e \in Entries(scheduleJson.doc) :
                  scheduleJson.doc[e[1]][e[2]] <= now + LOOKAHEAD_MS =>
                      \E c \in cron'.sendCalls : JobOf(c.snapshot) = e ]_vars

\* C32 happens: of a batch of two the first publish call failed and the
\* second job was published, recorded and removed; the failed job is still
\* in schedule.json and the next cron run has sent it again
PerMessageIsolationSeen ==
    /\ pub.pc = "idle" /\ pub.result = "returned"
    /\ pub.n = 2 /\ pub.calls = 2 /\ pub.failedAt = 1
    /\ pub.completedPuts = 1 /\ pub.schedulePuts = 1
    /\ Cardinality(Entries(scheduleJson.doc)) = 1
    /\ cron.lastRun = CRON_INTERVAL_MS
    /\ \E m \in queue :
          /\ JobOf(m.body) \in Entries(scheduleJson.doc)
          /\ m.timestamp = CRON_INTERVAL_MS

-----------------------------------------------------------------------------
(* Properties of the publish-snapshot revision *)

\* C33 (manifest marked published only after publishing): every update
\* that sets a snapshot's manifest to 'published' and removes its
\* scheduledPublish follows, in the same invocation, a publish call for
\* that snapshot that succeeded; after a failed publish call the manifest
\* is left as it was.
ManifestOnlyAfterPublish ==
    /\ \A u \in snap.patches : u.publishOk
    /\ snap.manifests \subseteq snap.published

\* The publish calls made so far for a job
SnapCallsOf(job) == { c \in snap.calls : c.job = job }

\* C39 (bounded retries): a publish call that throws is followed by a send
\* of the same message to PUBLISH_QUEUE with a delay of 30 seconds and
\* queue() does not raise; the publish calls made for one job never exceed
\* the queue's maximum number of delivery attempts, so a job whose publish
\* call always fails is given up after that many attempts.
BoundedRetries ==
    /\ ~snap.raised
    /\ \A r \in snap.resent : r.delaySeconds = 30
    /\ faults = 0 =>
         \A c \in snap.calls :
            c.outcome = "fetch_throws" =>
                [ job |-> c.job, at |-> c.at, delaySeconds |-> 30 ] \in snap.resent
    /\ \A c \in snap.calls : Cardinality(SnapCallsOf(c.job)) <= MaxAttempts

-----------------------------------------------------------------------------
(* Properties of rejected schedule requests *)

\* C34 (rejected schedule requests leave the store unchanged): a step of
\* updateSchedule that answers 400 (missing body or field, malformed due
\* time) or 404 (tenant not registered, manifest not found) leaves
\* schedule.json as it was stored.
RejectedLeavesStore ==
    [][ (upd' # upd /\ upd'.status \in { 400, 404 }) =>
            scheduleJson' = scheduleJson ]_vars

\* A request was answered with 400 or 404 while schedule.json held jobs
RejectedLeavesStoreSeen ==
    /\ upd.pc = "idle"
    /\ upd.status \in { 400, 404 }
    /\ scheduleJson.exists
    /\ Entries(scheduleJson.doc) # {}

-----------------------------------------------------------------------------
(* Properties of the failure records *)

\* The jobs with a record in a failed bucket
Failed ==
    UNION { JobsOf(failed[d]) : d \in DOMAIN failed }

\* C35 (failure records mean not published): no job with a record in a
\* failed/<date> bucket has had a publish call that succeeded while its
\* message was delivered and retried, whatever jobs shared its batches.
FailedMeansNotPublished ==
    \A e \in Failed : e \notin hist.succeeded

-----------------------------------------------------------------------------
(* Properties of rescheduled jobs *)

\* C36 (no early publish after rescheduling): a job whose publish call
\* succeeds in a step is, if schedule.json holds it at that moment, stored
\* there with a due time that has come, also when updateSchedule has moved
\* the due time after a cron run had sent the job.
NoEarlyPublish ==
    [][ \A e \in hist'.succeeded \ hist.succeeded :
            e \in Entries(scheduleJson.doc) =>
                DateGetTime(scheduleJson.doc[e[1]][e[2]]).ms <= now ]_vars

-----------------------------------------------------------------------------
(* Frame of the schedule API *)

\* C37 (upsert frame): the put of a successful updateSchedule for
\* (org, site, jobId) keeps every other entry of schedule.json, of the same
\* tenant and of every other tenant, with its due time, also when the read
\* of schedule.json threw during the call.
UpsertFrame ==
    [][ (upd.pc = "put" /\ upd'.status = 200) =>
            \A e \in Entries(scheduleJson.doc) \ { Job(upd.org, upd.site, upd.snapshotId) } :
                /\ e \in Entries(scheduleJson'.doc)
                /\ scheduleJson'.doc[e[1]][e[2]] = scheduleJson.doc[e[1]][e[2]] ]_vars

-----------------------------------------------------------------------------
(* Properties of the tenant key *)

\* The snapshot a cron run at time t emits for the job that updateSchedule
\* has just stored in doc under (org, site) carries that org and that site
EmittedFor(doc, t, org, site, snapshotId) ==
    \E sn \in getScheduledSnapshots(doc, t) :
        sn.org = org /\ sn.site = site /\ sn.snapshotId = snapshotId

\* No snapshot that the last cron run sent lacks its org or its site
NoneEmittedForInvalidKey(c) ==
    \A call \in c.sendCalls :
        call.snapshot.org # << >> /\ call.snapshot.site # << >>

\* The name holds no "--"
NoSeparator(name) ==
    \A i \in 1..(Len(name) - 1) : ~(name[i] = "-" /\ name[i + 1] = "-")

\* C38 as stated (tenant key round trip): for every (org, site) under
\* which updateSchedule stores a job, the message the cron worker emits
\* for that job carries the same org and the same site; a tenant key that
\* does not split on "--" into a non-empty org and site is skipped.
KeyRoundTripAsStated ==
    [][ /\ (upd.pc = "put" /\ upd'.status = 200) =>
               EmittedFor(scheduleJson'.doc, now, upd.org, upd.site, upd.snapshotId)
        /\ NoneEmittedForInvalidKey(cron') ]_vars

\* C38 (tenant key round trip, names without the separator): for every
\* (org, site) under which updateSchedule stores a job, with no "--" in
\* either name and no "-" at the end of org, the message the cron worker
\* emits for that job carries the same org and the same site; a tenant key
\* that does not split on "--" into a non-empty org and site is skipped
\* without emitting anything.
KeyRoundTrip ==
    [][ /\ ( /\ upd.pc = "put" /\ upd'.status = 200
             /\ NoSeparator(upd.org) /\ NoSeparator(upd.site)
             /\ upd.org[Len(upd.org)] # "-" ) =>
               EmittedFor(scheduleJson'.doc, now, upd.org, upd.site, upd.snapshotId)
        /\ NoneEmittedForInvalidKey(cron') ]_vars

\* A cron run has read a document with a key that does not split into an
\* org and a site and with the key of a tenant whose site ends in "-": it
\* has sent the job of that tenant with its org and site, and nothing else
KeyRoundTripSeen ==
    /\ cron.lastRun = now /\ ~cron.loadThrew
    /\ \E k \in DOMAIN scheduleJson.doc : ~ValidOrgSiteKey(k)
    /\ OrgSiteKey(<<"x">>, <<"x", "-">>) \in DOMAIN scheduleJson.doc
    /\ { [ org |-> call.snapshot.org, site |-> call.snapshot.site ] :
           call \in cron.sendCalls }
         = { [ org |-> <<"x">>, site |-> <<"x", "-">> ] }

====
